---- MODULE Spec2Model ----
(***************************************************************************)
(* Timer engine (ComplexTimer) and registry (TimerManager) of              *)
(* src/misc/timer.py.                                                      *)
(*                                                                         *)
(* Time is discrete: one Tick is one second.  A thread that is running     *)
(* code (not sleeping, waiting or blocked in an external command) acts     *)
(* before the next Tick; events due in the same second are ordered         *)
(* nondeterministically.  A sleep of 0.1 s lasts at most one Tick.         *)
(***************************************************************************)
EXTENDS Integers, Sequences, FiniteSets, TLC

VARIABLES heap, timers, caller, result, callbacks, calls, file, starting,
          joining

vars ==
  <<heap, timers, caller, result, callbacks, calls, file, starting, joining>>

(* ------------------------------ bounds -------------------------------- *)

\* largest countdown duration drawn at construction
MaxDuration == 2
\* largest interval / check_interval drawn at construction
MaxInterval == 1
\* largest max_repeats drawn at construction
MaxRepeats == 2
\* an engine's trigger_count is followed up to this value
MaxTriggers == 3
\* successful start() calls followed per engine
MaxRuns == 2
\* longest time an external command (an action) blocks, in ticks
MaxCmdTime == 2
\* the time since start() is followed up to this many ticks
MaxElapsed == 3
\* the time a worker outlives its cancellation is followed up to this
MaxLate == 3
\* callbacks subscribed to the registry
MaxCallbacks == 2

(* ------------------------- program constants -------------------------- *)

\* time.sleep(1): the tick of countdown, scheduled and pomodoro
TickSleep == 1
\* time.sleep(60): scheduled, on a day that is not allowed
MinuteSleep == 60
\* time.sleep(0.1): chain and stopwatch; under one tick, rounded up
PollSleep == 1
\* thread.join(timeout=1) in stop()
JoinTimeout == 1
\* config.get('interval', 60)
DefaultInterval == 60
\* config.get('check_interval', 30)
DefaultCheckInterval == 30

\* self.last_triggered = None
NoTime == 0
\* no engine (dict lookup miss, chain_timer not yet bound)
NoTimer == 0
\* no file at file_path: nothing has been written there. A file is a JSON
\* document (json, data) or another text; saved is the registry mapping
\* that save_to_file wrote it from, which the program does not store
NoFile ==
  [exists |-> FALSE, json |-> FALSE, data |-> <<>>, saved |-> <<>>]

\* the threads that call start() and stop() on the engines
Callers == {1, 2}
\* no caller is inside start()
NoStart == [c \in Callers |-> NoTimer]
\* no caller is inside the join of stop()
NoJoin == [c \in Callers |-> NoTimer]

\* engine objects a caller constructs, and the objects a chain constructs
TopIds == {1, 2}
ChildIds == {3, 4}
Ids == TopIds \cup ChildIds
Names == {"a", "b"}

TimerType ==
  {"countdown", "interval", "scheduled", "conditional", "chain", "pomodoro",
   "stopwatch"}

ActionType == {"popup", "command", "file_write"}

\* dict.get(key, default)
Get(cfg, key, default) == IF key \in DOMAIN cfg THEN cfg[key] ELSE default

Min(a, b) == IF a < b THEN a ELSE b

(* ------------------------- engine construction ------------------------ *)

\* An object of the heap: the attributes of ComplexTimer; the position of
\* its worker thread (pc: "none" while self.thread is None, "dead" once the
\* thread has ended), the time left of the worker's sleep, wait or external
\* command (left) and the worker's loop variables (count, si, cur, ai,
\* chain_timer, duration, period_left); and what the run has done so far, which the
\* program does not store: successful start() calls (runs), seconds since
\* the last one (age), whether and after how many triggers stop() was
\* called on the live worker (cancelled, cancel_triggers), the triggers and
\* executed actions of the run (run_triggers, executed), the age at the
\* last trigger (trigger_age) and the seconds the worker has lived with the
\* event set while no external command ran (late), and the live threads of
\* earlier start() calls that self.thread no longer refers to (orphans),
\* and whether pause() was called with no resume() after it (paused).
\* A slot of the heap that holds no object:
NoObject ==
  [exists |-> FALSE, name |-> "", timer_type |-> "countdown", config |-> <<>>,
   actions |-> <<>>, last_triggered |-> NoTime, trigger_count |-> 0,
   stop_event |-> FALSE, pc |-> "none", left |-> 0, ai |-> 0,
   remaining_time |-> 0, count |-> 0, si |-> 0, cur |-> 0,
   current_chain_index |-> 0, chain_timer |-> NoTimer,
   current_cycle |-> 0, is_work_period |-> TRUE, duration |-> 0,
   period_left |-> 0,
   elapsed_time |-> 0, start_time |-> NoTime,
   runs |-> 0, age |-> 0, cancelled |-> FALSE, run_triggers |-> 0,
   trigger_age |-> 0, cancel_triggers |-> 0, executed |-> 0, late |-> 0,
   done |-> <<>>, failures |-> 0, orphans |-> 0, paused |-> FALSE]

\* ComplexTimer.__init__ with _init_timer_specifics
NewTimer(nm, ty, cfg) ==
  [NoObject EXCEPT
     !.exists = TRUE, !.name = nm, !.timer_type = ty, !.config = cfg,
     !.remaining_time = IF ty = "countdown" THEN Get(cfg, "duration", 0) ELSE 0]

\* add_action, once per element of al
add_actions(e, al) == [e EXCEPT !.actions = @ \o al]

\* f"{self.name}_chain_{i}"
ChainName(nm, i) ==
  CASE nm = "a" /\ i = 0 -> "a_chain_0"
    [] nm = "a" /\ i = 1 -> "a_chain_1"
    [] nm = "b" /\ i = 0 -> "b_chain_0"
    [] nm = "b" /\ i = 1 -> "b_chain_1"
    [] OTHER -> "chain"

(* ------------------------------ the engine ---------------------------- *)

\* self.thread and self.thread.is_alive()
is_alive(e) == e.pc \notin {"none", "dead"}

\* the worker's run loop has returned: the thread ends
exit_thread(e) == [e EXCEPT !.pc = "dead", !.left = 0, !.ai = 0]

\* _trigger whose loop starts at the second action
trigger_from_second(e) ==
  [e EXCEPT !.last_triggered = e.trigger_count + 1,
            !.trigger_count = @ + 1,
            !.run_triggers = @ + 1, !.trigger_age = e.age,
            !.pc = "exec", !.ai = 2, !.left = 0, !.done = <<>>]

\* _trigger: stamp and count, then the actions from the first on
trigger(e) ==
  [e EXCEPT !.last_triggered = e.trigger_count + 1,
            !.trigger_count = @ + 1,
            !.run_triggers = @ + 1, !.trigger_age = e.age,
            !.pc = "exec", !.ai = 1, !.left = 0, !.done = <<>>]

\* _run_countdown with a loop test of remaining_time > 1
countdown_loop_short(e) ==
  IF e.remaining_time > 1 /\ ~e.stop_event
    THEN [e EXCEPT !.pc = "sleep", !.left = TickSleep]
    ELSE IF ~e.stop_event THEN trigger(e) ELSE exit_thread(e)

\* _run_countdown without the test of stop_event after the loop
countdown_loop_unchecked(e) ==
  IF e.remaining_time > 0 /\ ~e.stop_event
    THEN [e EXCEPT !.pc = "sleep", !.left = TickSleep]
    ELSE trigger(e)

\* _run_countdown: the loop test and what follows it
countdown_loop(e) ==
  IF e.remaining_time > 0 /\ ~e.stop_event
    THEN [e EXCEPT !.pc = "sleep", !.left = TickSleep]
    ELSE IF ~e.stop_event THEN trigger(e) ELSE exit_thread(e)

\* _run_countdown that takes two off remaining_time per tick
countdown_wake_double(e) ==
  countdown_loop([e EXCEPT !.remaining_time = @ - 2])

\* _run_countdown: time.sleep(1) has returned
countdown_wake(e) ==
  countdown_loop([e EXCEPT !.remaining_time = @ - 1])

\* _run_interval: the loop test, then stop_event.wait(self.interval)
interval_loop(e) ==
  IF ~e.stop_event
    THEN [e EXCEPT !.pc = "wait",
                   !.left = Get(e.config, "interval", DefaultInterval)]
    ELSE exit_thread(e)

\* _run_interval: stop_event.wait has returned, signalled (time is left)
\* or timed out
interval_wake(e) ==
  IF e.left > 0 THEN exit_thread(e) ELSE trigger(e)

\* _run_interval with a max_repeats test of count > max_repeats
interval_after_extra(e) ==
  LET c == e.count + 1
      m == Get(e.config, "max_repeats", -1)
  IN  IF m > 0 /\ c > m
        THEN exit_thread([e EXCEPT !.count = c])
        ELSE interval_loop([e EXCEPT !.count = c])

\* _run_interval: after _trigger, count and the max_repeats test
interval_after(e) ==
  LET c == e.count + 1
      m == Get(e.config, "max_repeats", -1)
  IN  IF m > 0 /\ c >= m
        THEN exit_thread([e EXCEPT !.count = c])
        ELSE interval_loop([e EXCEPT !.count = c])

\* _run_scheduled: the for loop over schedule_times from position e.si on;
\* time.sleep(1) after the last mark
scheduled_marks(e) ==
  LET marks == Get(e.config, "schedule_times", <<>>)
      hits == {j \in e.si..Len(marks) : marks[j] = e.cur}
  IN  IF hits = {}
        THEN [e EXCEPT !.pc = "sleep", !.left = TickSleep, !.si = 0]
        ELSE [trigger(e) EXCEPT
                !.si = CHOOSE j \in hits : \A k \in hits : j <= k]

\* _run_scheduled: the loop test, datetime.now() read as now, the weekday
\* and date tests
scheduled_loop(e, now) ==
  IF e.stop_event THEN exit_thread(e)
  ELSE IF now.weekday \notin Get(e.config, "days_of_week", 0..6)
    THEN [e EXCEPT !.pc = "sleep", !.left = MinuteSleep]
  ELSE IF /\ "date_specific" \in DOMAIN e.config
          /\ now.date # e.config.date_specific
    THEN [e EXCEPT !.pc = "sleep", !.left = MinuteSleep]
  ELSE scheduled_marks([e EXCEPT !.cur = now.time, !.si = 1])

\* the value of eval(condition_script, safe_globals): "error" when it raises
eval(script, now) ==
  CASE script = "True" -> "True"
    [] script = "False" -> "False"
    [] script = "2" -> "2"
    [] script = "datetime.datetime.now().second == 1" ->
         IF now.time = 1 THEN "True" ELSE "False"
    [] OTHER -> "error"

\* bool(value)
bool(v) == v \notin {"False", "0", "", "None"}

\* _evaluate_condition that takes an expression that raises for true
evaluate_condition_raised(e, now) ==
  LET v == eval(Get(e.config, "condition_script", ""), now)
  IN  IF v = "error" THEN TRUE ELSE bool(v)

\* _evaluate_condition
evaluate_condition(e, now) ==
  LET v == eval(Get(e.config, "condition_script", ""), now)
  IN  IF v = "error" THEN FALSE ELSE bool(v)

\* _run_conditional: stop_event.wait(self.check_interval)
conditional_wait(e) ==
  [e EXCEPT !.pc = "wait",
            !.left = Get(e.config, "check_interval", DefaultCheckInterval)]

\* _run_conditional: the loop test and the evaluation
conditional_loop(e, now) ==
  IF e.stop_event THEN exit_thread(e)
  ELSE IF evaluate_condition(e, now) THEN trigger(e)
  ELSE conditional_wait(e)

\* _run_conditional: stop_event.wait has returned
conditional_wake(e, now) ==
  IF e.left > 0 THEN exit_thread(e) ELSE conditional_loop(e, now)

\* _run_pomodoro: for _ in range(duration), then _trigger
pomodoro_for(e) ==
  IF e.period_left <= 0 THEN trigger(e)
  ELSE IF e.stop_event THEN exit_thread(e)
  ELSE [e EXCEPT !.pc = "sleep", !.left = TickSleep, !.period_left = @ - 1]

\* _run_pomodoro: the for loop over range(duration) entered with d
pomodoro_period(e, d) ==
  pomodoro_for([e EXCEPT !.duration = d, !.period_left = d])

\* _run_pomodoro whose long break comes one cycle early
pomodoro_loop_early(e) ==
  LET k == Get(e.config, "cycles_until_long_break", 4)
  IN  IF e.stop_event THEN exit_thread(e)
      ELSE IF e.is_work_period
        THEN pomodoro_period(e, Get(e.config, "work_duration", 1500))
      ELSE IF k = 0 THEN exit_thread(e)
      ELSE IF (e.current_cycle + 1) % k = 0 /\ e.current_cycle > 0
        THEN pomodoro_period(e, Get(e.config, "long_break_duration", 900))
      ELSE pomodoro_period(e, Get(e.config, "break_duration", 300))

\* _run_pomodoro in which a zero cycles_until_long_break does not raise
pomodoro_loop_zero(e) ==
  LET k == Get(e.config, "cycles_until_long_break", 4)
  IN  IF e.stop_event THEN exit_thread(e)
      ELSE IF e.is_work_period
        THEN pomodoro_period(e, Get(e.config, "work_duration", 1500))
      ELSE IF k # 0 /\ e.current_cycle % k = 0 /\ e.current_cycle > 0
        THEN pomodoro_period(e, Get(e.config, "long_break_duration", 900))
      ELSE pomodoro_period(e, Get(e.config, "break_duration", 300))

\* _run_pomodoro: the loop test and the duration of the period; a zero
\* cycles_until_long_break raises, which _run catches
pomodoro_loop(e) ==
  LET k == Get(e.config, "cycles_until_long_break", 4)
  IN  IF e.stop_event THEN exit_thread(e)
      ELSE IF e.is_work_period
        THEN pomodoro_period(e, Get(e.config, "work_duration", 1500))
      ELSE IF k = 0 THEN exit_thread(e)
      ELSE IF e.current_cycle % k = 0 /\ e.current_cycle > 0
        THEN pomodoro_period(e, Get(e.config, "long_break_duration", 900))
      ELSE pomodoro_period(e, Get(e.config, "break_duration", 300))

\* _run_pomodoro that counts a cycle after every period
pomodoro_after_every(e) ==
  pomodoro_loop([e EXCEPT !.current_cycle = @ + 1, !.is_work_period = ~@])

\* _run_pomodoro: after _trigger, switch periods
pomodoro_after(e) ==
  pomodoro_loop([e EXCEPT
                   !.current_cycle = IF e.is_work_period THEN @ + 1 ELSE @,
                   !.is_work_period = ~@])

\* _run_stopwatch: the loop test, then time.sleep(0.1)
stopwatch_loop(e) ==
  IF e.stop_event THEN exit_thread(e)
  ELSE [e EXCEPT !.pc = "nap", !.left = PollSleep]

\* _run_stopwatch that triggers once a second has elapsed
stopwatch_wake_trigger(e) ==
  IF e.age > 0 THEN trigger([e EXCEPT !.elapsed_time = e.age])
  ELSE stopwatch_loop([e EXCEPT !.elapsed_time = e.age])

\* _run_stopwatch: time.sleep(0.1) has returned; time.time() - start_time
\* is the age of the run
stopwatch_wake(e) == stopwatch_loop([e EXCEPT !.elapsed_time = e.age])

\* _run: dispatch on the mode, up to the first suspension (a chain engine
\* is run by chain_iter)
run(e, now) ==
  CASE e.timer_type = "countdown" -> countdown_loop(e)
    [] e.timer_type = "interval" -> interval_loop([e EXCEPT !.count = 0])
    [] e.timer_type = "scheduled" -> scheduled_loop(e, now)
    [] e.timer_type = "conditional" -> conditional_loop(e, now)
    [] e.timer_type = "pomodoro" -> pomodoro_loop(e)
    [] e.timer_type = "stopwatch" ->
         stopwatch_loop([e EXCEPT !.start_time = e.runs])
    [] OTHER -> exit_thread(e)

\* a sleep or wait of the run loop has returned
wake(e, now) ==
  CASE e.timer_type = "countdown" -> countdown_wake(e)
    [] e.timer_type = "interval" -> interval_wake(e)
    [] e.timer_type = "scheduled" -> scheduled_loop(e, now)
    [] e.timer_type = "conditional" -> conditional_wake(e, now)
    [] e.timer_type = "pomodoro" -> pomodoro_for(e)
    [] e.timer_type = "stopwatch" -> stopwatch_wake(e)
    [] OTHER -> exit_thread(e)

\* the statement after self._trigger() in the run loop
after_trigger(e) ==
  CASE e.timer_type = "countdown" -> exit_thread(e)
    [] e.timer_type = "interval" -> interval_after(e)
    [] e.timer_type = "scheduled" ->
         [e EXCEPT !.pc = "marks", !.si = @ + 1, !.ai = 0]
    [] e.timer_type = "conditional" -> conditional_wait([e EXCEPT !.ai = 0])
    [] e.timer_type = "pomodoro" -> pomodoro_after([e EXCEPT !.ai = 0])
    [] OTHER -> exit_thread(e)

\* how the call of an action can end: subprocess.run returns at once or
\* blocks for a while, open() of a file_write returns or raises
Outcomes(kind) ==
  CASE kind = "command" -> {"returns", "blocks"}
    [] kind = "file_write" -> {"returns", "raises"}
    [] OTHER -> {"returns"}

\* _trigger: _execute_action has returned, the for loop goes on
action_done(e) ==
  [e EXCEPT !.pc = "exec", !.left = 0, !.ai = @ + 1, !.executed = @ + 1,
            !.done = Append(@, e.actions[e.ai])]

\* _execute_action without its try/except: the exception ends _trigger and
\* the run loop, and _run catches it
execute_action_uncaught(e, out) ==
  CASE out = "blocks" -> [e EXCEPT !.pc = "cmd", !.left = MaxCmdTime]
    [] out = "raises" -> exit_thread([e EXCEPT !.failures = @ + 1])
    [] OTHER -> action_done(e)

\* _execute_action of the action at position ai, ending as out; an
\* exception is caught and printed
execute_action(e, out) ==
  CASE out = "blocks" -> [e EXCEPT !.pc = "cmd", !.left = MaxCmdTime]
    [] out = "raises" -> action_done([e EXCEPT !.failures = @ + 1])
    [] OTHER -> action_done(e)

\* a new thread on _run, started: the record of a new run
new_run(e) ==
  [e EXCEPT !.pc = "run", !.left = 0, !.ai = 0,
            !.runs = @ + 1, !.age = 0, !.cancelled = FALSE,
            !.run_triggers = 0, !.trigger_age = 0,
            !.cancel_triggers = 0, !.executed = 0, !.late = 0,
            !.done = <<>>, !.failures = 0]

\* start without the is_alive test
start_unguarded(e) ==
  [ret |-> TRUE, self |-> new_run([e EXCEPT !.stop_event = FALSE])]

\* start that tests self.thread alone, not is_alive()
start_once(e) ==
  IF e.pc # "none"
    THEN [ret |-> FALSE, self |-> e]
    ELSE [ret |-> TRUE, self |-> new_run([e EXCEPT !.stop_event = FALSE])]

\* start that begins the count of triggers anew
start_resets_count(e) ==
  IF is_alive(e)
    THEN [ret |-> FALSE, self |-> e]
    ELSE [ret |-> TRUE,
          self |-> new_run([e EXCEPT !.stop_event = FALSE,
                                     !.trigger_count = 0])]

\* start without stop_event.clear()
start_keeps_event(e) ==
  IF is_alive(e)
    THEN [ret |-> FALSE, self |-> e]
    ELSE [ret |-> TRUE, self |-> new_run(e)]

\* ComplexTimer.start: the value returned (ret) and the engine after the
\* call (self)
start(e) ==
  IF is_alive(e)
    THEN [ret |-> FALSE, self |-> e]
    ELSE [ret |-> TRUE, self |-> new_run([e EXCEPT !.stop_event = FALSE])]

\* ComplexTimer.pause: pass
pause(e) == [e EXCEPT !.paused = TRUE]

\* ComplexTimer.resume: pass
resume(e) == [e EXCEPT !.paused = FALSE]

\* ComplexTimer.stop: self.stop_event.set()
stop_set(e) ==
  [e EXCEPT !.stop_event = TRUE,
            !.cancelled = @ \/ is_alive(e),
            !.cancel_triggers =
               IF is_alive(e) /\ ~e.cancelled THEN e.run_triggers ELSE @]

(* ------------------------------ chain mode ---------------------------- *)

\* heap slots in which a chain can construct its next sub-timer
FreeSlots(h) == {c \in ChildIds : ~is_alive(h[c])}

\* a chain that puts its new sub-timer in the place of any object without
\* a live worker, a registered engine included
NewSlot_registered(h) ==
  LET pool == {c \in Ids : ~is_alive(h[c]) /\ (c \in TopIds => h[c].exists)}
  IN  CHOOSE x \in pool : \A y \in pool : x <= y

\* the slot of a new sub-timer: one never used while there is one, else
\* that of a sub-timer whose worker has exited
NewSlot(h) ==
  LET unused == {c \in FreeSlots(h) : ~h[c].exists}
      pool == IF unused # {} THEN unused ELSE FreeSlots(h)
  IN  CHOOSE x \in pool : \A y \in pool : x <= y

\* _run_chain whose for loop does not test the cancellation signal
chain_constructs_unchecked(h, t, i) ==
  i < Len(Get(h[t].config, "chain_configs", <<>>))

\* _run_chain: the for loop reaches position i with sub-timers left and
\* no cancellation, so it constructs one
chain_constructs(h, t, i) ==
  /\ i < Len(Get(h[t].config, "chain_configs", <<>>))
  /\ ~h[t].stop_event

\* _run_chain that triggers the chain engine when its for loop is over
chain_iter_triggers(h, t, i) ==
  LET cfgs == Get(h[t].config, "chain_configs", <<>>)
      c == NewSlot(h)
  IN  IF ~chain_constructs(h, t, i)
        THEN [h EXCEPT ![t] = trigger(@)]
      ELSE IF Get(cfgs[i + 1], "type", "") \notin TimerType
        THEN [h EXCEPT ![t] = exit_thread([@ EXCEPT !.current_chain_index = i])]
      ELSE [h EXCEPT
              ![t] = [@ EXCEPT !.current_chain_index = i, !.chain_timer = c,
                               !.pc = "nap", !.left = PollSleep],
              ![c] = start(NewTimer(ChainName(h[t].name, i),
                                    cfgs[i + 1].type, cfgs[i + 1])).self]

\* _run_chain: the head of the for loop at position i (from 0): construct
\* and start the sub-timer, then poll it; a sub-specification without a
\* known type raises, which _run catches
chain_iter(h, t, i) ==
  LET cfgs == Get(h[t].config, "chain_configs", <<>>)
      c == NewSlot(h)
  IN  IF ~chain_constructs(h, t, i)
        THEN [h EXCEPT ![t] = exit_thread(@)]
      ELSE IF Get(cfgs[i + 1], "type", "") \notin TimerType
        THEN [h EXCEPT ![t] = exit_thread([@ EXCEPT !.current_chain_index = i])]
      ELSE [h EXCEPT
              ![t] = [@ EXCEPT !.current_chain_index = i, !.chain_timer = c,
                               !.pc = "nap", !.left = PollSleep],
              ![c] = start(NewTimer(ChainName(h[t].name, i),
                                    cfgs[i + 1].type, cfgs[i + 1])).self]

\* _run_chain whose while loop ends at the sub-timer's first trigger
chain_poll_first_trigger(h, t) ==
  LET c == h[t].chain_timer
  IN  IF h[c].trigger_count = 0 /\ is_alive(h[c]) /\ ~h[t].stop_event
        THEN [h EXCEPT ![t] = [@ EXCEPT !.pc = "nap", !.left = PollSleep]]
        ELSE [h EXCEPT ![c] = stop_set(@),
                       ![t] = [@ EXCEPT !.pc = "join", !.left = JoinTimeout]]

\* _run_chain: time.sleep(0.1) has returned: the while test, and
\* chain_timer.stop() when it fails
chain_poll(h, t) ==
  LET c == h[t].chain_timer
  IN  IF is_alive(h[c]) /\ ~h[t].stop_event
        THEN [h EXCEPT ![t] = [@ EXCEPT !.pc = "nap", !.left = PollSleep]]
        ELSE [h EXCEPT ![c] = stop_set(@),
                       ![t] = [@ EXCEPT !.pc = "join", !.left = JoinTimeout]]

(* ------------------------------ the registry -------------------------- *)

\* name in self.timers
registered(reg, n) == reg[n] # NoTimer

\* the names in the registry
RegNames(reg) == {n \in Names : registered(reg, n)}

\* add_timer without the test for a registered name
add_timer_overwrite(reg, n, t) == [reg EXCEPT ![n] = t]

\* TimerManager.add_timer: the mapping after the call
add_timer(reg, n, t) == IF registered(reg, n) THEN reg ELSE [reg EXCEPT ![n] = t]

\* TimerManager.remove_timer: del self.timers[name]
del_timer(reg, n) == [reg EXCEPT ![n] = NoTimer]

\* the callables a caller subscribes: one that returns, one that raises
Callbacks == {"returns", "raises"}

\* _notify_callbacks that lets the exception of a callback escape
RECURSIVE notify_callbacks_uncaught(_, _)
notify_callbacks_uncaught(cbs, reg) ==
  IF cbs = <<>> THEN <<>>
  ELSE IF Head(cbs) = "raises" THEN <<[cb |-> Head(cbs), seen |-> reg]>>
  ELSE <<[cb |-> Head(cbs), seen |-> reg]>>
         \o notify_callbacks_uncaught(Tail(cbs), reg)

\* _notify_callbacks: the calls made, each with the mapping the callback
\* finds; the exception of a callback is caught and the loop goes on
RECURSIVE notify_callbacks(_, _)
notify_callbacks(cbs, reg) ==
  IF cbs = <<>> THEN <<>>
  ELSE <<[cb |-> Head(cbs), seen |-> reg]>> \o notify_callbacks(Tail(cbs), reg)

(* ------------------------------ initial state ------------------------- *)

\* the action sequences attached to an engine before it is handed over
ActionLists == {<<>>, <<"command", "popup">>}

\* the (mode, config) pairs engines are constructed with
TimerConfigs ==
  {[type |-> "countdown", config |-> [duration |-> d]] : d \in 0..MaxDuration}
  \cup
  {[type |-> "interval", config |-> [interval |-> i, max_repeats |-> m]] :
     i \in 1..MaxInterval, m \in -1..MaxRepeats}
  \cup
  {[type |-> "scheduled", config |-> [schedule_times |-> <<1, 1>>]]}
  \cup
  {[type |-> "conditional",
    config |-> [condition_script |-> x, check_interval |-> i]] :
     x \in {"True", "1/0", "datetime.datetime.now().second == 1"},
     i \in 1..MaxInterval}
  \cup
  {[type |-> "chain", config |-> [chain_configs |-> c]] :
     c \in {<<[type |-> "countdown", duration |-> 1],
              [type |-> "interval", interval |-> 1, max_repeats |-> MaxRepeats]>>}}
  \cup
  {[type |-> "pomodoro",
    config |-> [work_duration |-> MaxDuration, break_duration |-> 1,
                long_break_duration |-> MaxDuration,
                cycles_until_long_break |-> k]] : k \in 1..2}
  \cup
  {[type |-> "stopwatch", config |-> <<>>]}

\* the engines a caller constructs: mode, config and attached actions; the
\* scheduled engine with a weekday set and a date has no mark and no action
TimerSpecs ==
  {[type |-> c.type, config |-> c.config, actions |-> al] :
     c \in TimerConfigs, al \in ActionLists}
  \cup
  {[type |-> "scheduled",
    config |-> [schedule_times |-> <<>>, days_of_week |-> {0},
                date_specific |-> 1],
    actions |-> <<>>]}

\* what datetime.now() can read at a poll: weekday, date, second of the day
Nows == [weekday : {0, 1}, date : {1, 2}, time : {0, 1}]

\* the readings that the run loop of e can tell apart
Inputs(e) ==
  IF e.timer_type \in {"scheduled", "conditional"}
    THEN Nows
    ELSE {[weekday |-> 0, date |-> 1, time |-> 0]}

Idle == [op |-> "idle", t |-> NoTimer, left |-> 0, todo |-> <<>>]

NoResult == [op |-> "none", t |-> NoTimer, val |-> FALSE, count |-> 0]

\* the value a call returns, with the engine it was about and, for a
\* remove_timer, that engine's trigger_count at the return
Returns(op, t, val) ==
  [op |-> op, t |-> t, val |-> val,
   count |-> IF op = "remove_timer" /\ t # NoTimer
               THEN heap[t].trigger_count ELSE 0]

\* TimerManager.__init__, and one engine a caller has constructed
Init ==
  /\ \E s1 \in TimerSpecs :
        heap = [i \in Ids |->
                  IF i = 1
                    THEN add_actions(NewTimer("a", s1.type, s1.config),
                                     s1.actions)
                    ELSE NoObject]
  /\ timers = [n \in Names |-> NoTimer]
  /\ caller = Idle
  /\ result = NoResult
  /\ callbacks = <<>>
  /\ calls = <<>>
  /\ file = NoFile
  /\ starting = NoStart
  /\ joining = NoJoin

(* ------------------------------ caller steps -------------------------- *)

\* engine.start() by the caller
Start(t) ==
  /\ caller.op = "idle"
  /\ heap[t].exists
  /\ is_alive(heap[t]) \/ heap[t].runs < MaxRuns
  /\ heap' = [heap EXCEPT ![t] = start(@).self]
  /\ result' = Returns("start", t, start(heap[t]).ret)
  /\ calls' = <<>>
  /\ UNCHANGED <<timers, caller, callbacks, file, starting, joining>>

\* remove_timer that deletes the entry without stopping the engine
stop_call_skipped(t, op) ==
  /\ heap' = IF op = "remove_timer" THEN heap ELSE [heap EXCEPT ![t] = stop_set(@)]
  /\ caller' = Idle
  /\ result' = Returns(op, t, TRUE)
  /\ timers' = IF op = "remove_timer"
                 THEN del_timer(timers, heap[t].name)
                 ELSE timers
  /\ calls' = IF op = "remove_timer"
                THEN notify_callbacks(callbacks, timers')
                ELSE <<>>
  /\ UNCHANGED <<callbacks, file, starting, joining>>

\* stop(), called as part of op: set the event; without a thread return,
\* else thread.join(timeout=1)
stop_call(t, op) ==
  /\ heap' = [heap EXCEPT ![t] = stop_set(@)]
  /\ IF heap[t].pc = "none"
       THEN /\ caller' = Idle
            /\ result' = Returns(op, t, TRUE)
            /\ timers' = IF op = "remove_timer"
                           THEN del_timer(timers, heap[t].name)
                           ELSE timers
            /\ calls' = IF op = "remove_timer"
                          THEN notify_callbacks(callbacks, timers')
                          ELSE <<>>
       ELSE /\ caller' = [op |-> op, t |-> t, left |-> JoinTimeout,
                          todo |-> <<>>]
            /\ result' = NoResult
            /\ timers' = timers
            /\ calls' = <<>>
  /\ UNCHANGED <<callbacks, file, starting, joining>>

\* engine.stop() by the caller
Stop(t) ==
  /\ caller.op = "idle"
  /\ heap[t].exists
  /\ stop_call(t, "stop")

\* thread.join(timeout=1) returns: the worker has exited, or the timeout
\* has passed; remove_timer then deletes the entry
JoinReturn ==
  /\ caller.op \notin {"idle", "stop_all"}
  /\ ~is_alive(heap[caller.t]) \/ caller.left = 0
  /\ caller' = Idle
  /\ result' = Returns(caller.op, caller.t, TRUE)
  /\ timers' = IF caller.op = "remove_timer"
                 THEN del_timer(timers, heap[caller.t].name)
                 ELSE timers
  /\ calls' = IF caller.op = "remove_timer"
                THEN notify_callbacks(callbacks, timers')
                ELSE <<>>
  /\ UNCHANGED <<heap, callbacks, file, starting, joining>>

\* TimerManager.add_timer
AddTimer(t) ==
  /\ caller.op = "idle"
  /\ heap[t].exists
  /\ timers' = add_timer(timers, heap[t].name, t)
  /\ result' = Returns("add_timer", t, ~registered(timers, heap[t].name))
  /\ calls' = IF registered(timers, heap[t].name)
                THEN <<>>
                ELSE notify_callbacks(callbacks, timers')
  /\ UNCHANGED <<heap, caller, callbacks, file, starting, joining>>

\* TimerManager.remove_timer
RemoveTimer(n) ==
  /\ caller.op = "idle"
  /\ IF registered(timers, n)
       THEN stop_call(timers[n], "remove_timer")
       ELSE /\ result' = Returns("remove_timer", NoTimer, FALSE)
            /\ calls' = <<>>
            /\ UNCHANGED <<heap, caller, timers, callbacks, file, starting, joining>>

\* start_timer that returns True for every registered name
StartTimer_true(n) ==
  /\ caller.op = "idle"
  /\ IF registered(timers, n)
       THEN /\ is_alive(heap[timers[n]]) \/ heap[timers[n]].runs < MaxRuns
            /\ heap' = [heap EXCEPT ![timers[n]] = start(@).self]
            /\ result' = Returns("start_timer", timers[n], TRUE)
       ELSE /\ result' = Returns("start_timer", NoTimer, FALSE)
            /\ UNCHANGED heap
  /\ calls' = <<>>
  /\ UNCHANGED <<timers, caller, callbacks, file, starting, joining>>

\* TimerManager.start_timer
StartTimer(n) ==
  /\ caller.op = "idle"
  /\ IF registered(timers, n)
       THEN /\ is_alive(heap[timers[n]]) \/ heap[timers[n]].runs < MaxRuns
            /\ heap' = [heap EXCEPT ![timers[n]] = start(@).self]
            /\ result' = Returns("start_timer", timers[n],
                                 start(heap[timers[n]]).ret)
       ELSE /\ result' = Returns("start_timer", NoTimer, FALSE)
            /\ UNCHANGED heap
  /\ calls' = <<>>
  /\ UNCHANGED <<timers, caller, callbacks, file, starting, joining>>

\* TimerManager.stop_timer
StopTimer(n) ==
  /\ caller.op = "idle"
  /\ IF registered(timers, n)
       THEN stop_call(timers[n], "stop_timer")
       ELSE /\ result' = Returns("stop_timer", NoTimer, FALSE)
            /\ calls' = <<>>
            /\ UNCHANGED <<heap, caller, timers, callbacks, file, starting, joining>>

(* ------------------------------ worker steps -------------------------- *)

\* the heap stays within the followed trigger counts
Followed(h) == \A x \in Ids : h[x].trigger_count <= MaxTriggers

\* a chain that constructs a sub-timer at position i has a heap slot for it
HasSlot(t, i) == chain_constructs(heap, t, i) => FreeSlots(heap) # {}

\* the new thread enters _run
Run(t) ==
  /\ heap[t].pc = "run"
  /\ heap[t].timer_type = "chain" => HasSlot(t, 0)
  /\ \E now \in Inputs(heap[t]) :
       LET h == IF heap[t].timer_type = "chain"
                  THEN chain_iter(heap, t, 0)
                  ELSE [heap EXCEPT ![t] = run(@, now)]
       IN  Followed(h) /\ heap' = h
  /\ UNCHANGED <<timers, caller, result, callbacks, calls, file, starting, joining>>

\* time.sleep returns after its time (a sleep of 0.1 s: within the tick);
\* stop_event.wait returns on its timeout, or at once when the event is set
Wake(t) ==
  /\ \/ heap[t].pc = "sleep" /\ heap[t].left = 0
     \/ heap[t].pc = "wait" /\ (heap[t].left = 0 \/ heap[t].stop_event)
     \/ heap[t].pc = "nap"
  /\ \E now \in Inputs(heap[t]) :
       LET h == IF heap[t].timer_type = "chain"
                  THEN chain_poll(heap, t)
                  ELSE [heap EXCEPT ![t] = wake(@, now)]
       IN  Followed(h) /\ heap' = h
  /\ UNCHANGED <<timers, caller, result, callbacks, calls, file, starting, joining>>

\* _run_scheduled: the next schedule_time of the for loop
Marks(t) ==
  /\ heap[t].pc = "marks"
  /\ Followed([heap EXCEPT ![t] = scheduled_marks(@)])
  /\ heap' = [heap EXCEPT ![t] = scheduled_marks(@)]
  /\ UNCHANGED <<timers, caller, result, callbacks, calls, file, starting, joining>>

\* _run_chain: chain_timer.stop() returns (its join: the sub-timer's worker
\* has exited, or the timeout has passed), and the for loop goes on
ChainJoin(t) ==
  /\ heap[t].pc = "join"
  /\ ~is_alive(heap[heap[t].chain_timer]) \/ heap[t].left = 0
  /\ HasSlot(t, heap[t].current_chain_index + 1)
  /\ heap' = chain_iter(heap, t, heap[t].current_chain_index + 1)
  /\ UNCHANGED <<timers, caller, result, callbacks, calls, file, starting, joining>>

\* _trigger's loop over self.actions: the next action, or the return
Exec(t) ==
  /\ heap[t].pc = "exec"
  /\ IF heap[t].ai > Len(heap[t].actions)
       THEN heap' = [heap EXCEPT ![t] = after_trigger(@)]
       ELSE \E out \in Outcomes(heap[t].actions[heap[t].ai]) :
              heap' = [heap EXCEPT ![t] = execute_action(@, out)]
  /\ Followed(heap')
  /\ UNCHANGED <<timers, caller, result, callbacks, calls, file, starting, joining>>

\* the external command of an action has finished
CmdDone(t) ==
  /\ heap[t].pc = "cmd"
  /\ heap[t].left = 0
  /\ heap' = [heap EXCEPT ![t] = action_done(@)]
  /\ UNCHANGED <<timers, caller, result, callbacks, calls, file, starting, joining>>

(* ------------------------------ time ---------------------------------- *)

\* a thread that acts before time passes
Urgent(h, i) ==
  \/ h[i].pc \in {"run", "exec", "marks"}
  \/ h[i].pc \in {"sleep", "wait", "cmd", "nap", "join"} /\ h[i].left = 0
  \/ h[i].pc = "wait" /\ h[i].stop_event
  \/ h[i].pc = "join" /\ ~is_alive(h[h[i].chain_timer])

\* one second passes for a live worker
tick(e) ==
  [e EXCEPT !.left = @ - 1,
            !.age = Min(@ + 1, MaxElapsed),
            !.late = IF e.stop_event /\ e.pc # "cmd"
                       THEN Min(@ + 1, MaxLate) ELSE @]

\* one second passes
Tick ==
  /\ \A i \in Ids : ~Urgent(heap, i)
  /\ caller.op # "idle" => caller.left > 0 /\ is_alive(heap[caller.t])
  /\ \E i \in Ids : is_alive(heap[i])
  /\ heap' = [i \in Ids |-> IF is_alive(heap[i]) THEN tick(heap[i]) ELSE heap[i]]
  /\ caller' = IF caller.op = "idle" THEN caller
               ELSE [caller EXCEPT !.left = @ - 1]
  /\ UNCHANGED <<timers, result, callbacks, calls, file, starting, joining>>

Next ==
  \/ \E t \in TopIds : Start(t) \/ Stop(t) \/ AddTimer(t)
  \/ \E n \in Names : RemoveTimer(n) \/ StartTimer(n) \/ StopTimer(n)
  \/ JoinReturn
  \/ \E t \in Ids : Run(t) \/ Wake(t) \/ Marks(t) \/ ChainJoin(t) \/ Exec(t) \/ CmdDone(t)
  \/ Tick

Spec == Init /\ [][Next]_vars

(* ------------------------------ two engines --------------------------- *)

\* the engines constructed where two of them meet in the registry; they
\* are started and stopped through the registry
RegSpecs ==
  {[type |-> "countdown", config |-> [duration |-> 1], actions |-> <<"popup">>]}

\* the persisted documents a caller loads: name to mode, config and actions
Docs == UNION {[D -> RegSpecs] : D \in SUBSET Names \ {{}}}

\* the heap slots no object lives in
NoObjects(h) == {t \in TopIds : ~h[t].exists}

\* load_from_file that does not convert the action tags
known_tags_mode(entry) == entry.type \in TimerType

\* TimerType(timer_data['type']) and ActionType(action_data['type']) of an
\* entry return: the tags are values of the enumerations
known_tags(entry) ==
  /\ entry.type \in TimerType
  /\ \A i \in 1..Len(entry.actions) : entry.actions[i] \in ActionType

\* load_from_file from entry i of the names on: construct the engine and
\* add_timer it; the engine of a rejected name is dropped, and an unknown
\* tag raises, which ends the loop
RECURSIVE load(_, _, _, _)
load(h, reg, doc, ns) ==
  IF ns = <<>> THEN [heap |-> h, timers |-> reg, calls |-> <<>>]
  ELSE IF ns[1] \notin DOMAIN doc THEN load(h, reg, doc, Tail(ns))
  ELSE IF ~known_tags(doc[ns[1]])
    THEN [heap |-> h, timers |-> reg, calls |-> <<>>]
  ELSE IF registered(reg, ns[1]) THEN load(h, reg, doc, Tail(ns))
  ELSE LET t == CHOOSE x \in NoObjects(h) : \A y \in NoObjects(h) : x <= y
           e == add_actions(NewTimer(ns[1], doc[ns[1]].type, doc[ns[1]].config),
                            doc[ns[1]].actions)
           added == add_timer(reg, ns[1], t)
           rest == load([h EXCEPT ![t] = e], added, doc, Tail(ns))
       IN  [rest EXCEPT !.calls = notify_callbacks(callbacks, added) \o @]

\* the entries of a document in the order load_from_file meets them
Entries == <<"a", "b">>

\* ComplexTimer(name, type, config) and add_action, by the caller
Construct(t, n, s) ==
  /\ caller.op = "idle"
  /\ ~heap[t].exists
  /\ heap' = [heap EXCEPT ![t] = add_actions(NewTimer(n, s.type, s.config),
                                              s.actions)]
  /\ UNCHANGED <<timers, caller, result, callbacks, calls, file, starting, joining>>

\* TimerManager.load_from_file
LoadFromFile(doc) ==
  /\ caller.op = "idle"
  /\ Cardinality({n \in DOMAIN doc : ~registered(timers, n)})
       <= Cardinality(NoObjects(heap))
  /\ heap' = load(heap, timers, doc, Entries).heap
  /\ timers' = load(heap, timers, doc, Entries).timers
  /\ calls' = load(heap, timers, doc, Entries).calls
  /\ result' = Returns("load_from_file", NoTimer, TRUE)
  /\ UNCHANGED <<caller, callbacks, file, starting, joining>>

\* TimerManager.__init__, and one engine a caller has constructed
InitReg ==
  /\ \E s1 \in RegSpecs :
        heap = [i \in Ids |->
                  IF i = 1
                    THEN add_actions(NewTimer("a", s1.type, s1.config),
                                     s1.actions)
                    ELSE NoObject]
  /\ timers = [n \in Names |-> NoTimer]
  /\ caller = Idle
  /\ result = NoResult
  /\ callbacks = <<>>
  /\ calls = <<>>
  /\ file = NoFile
  /\ starting = NoStart
  /\ joining = NoJoin

NextReg ==
  \/ \E t \in TopIds : AddTimer(t)
  \/ \E n \in Names : RemoveTimer(n) \/ StartTimer(n) \/ StopTimer(n)
  \/ \E t \in TopIds, n \in Names, s \in RegSpecs : Construct(t, n, s)
  \/ \E doc \in Docs : LoadFromFile(doc)
  \/ JoinReturn
  \/ \E t \in TopIds : Run(t) \/ Wake(t) \/ Exec(t)
  \/ Tick

SpecReg == InitReg /\ [][NextReg]_vars

(* ------------------------------ save and load ------------------------ *)

\* json.dump can encode the config: it holds no datetime.time (the marks
\* of schedule_times) and no datetime.date (date_specific)
encodable(cfg) ==
  /\ Get(cfg, "schedule_times", <<>>) = <<>>
  /\ "date_specific" \notin DOMAIN cfg

\* save_to_file: the dict built from self.timers
snapshot(h, reg) ==
  [n \in {m \in Names : registered(reg, m)} |->
     [type |-> h[reg[n]].timer_type, config |-> h[reg[n]].config,
      actions |-> h[reg[n]].actions]]

\* save_to_file: open(file_path, 'w') truncates the file and json.dump
\* writes the document, or raises TypeError part-way at a value it cannot
\* encode and leaves a text that is no document
save_to_file(h, reg) ==
  LET data == snapshot(h, reg)
  IN  IF \A n \in DOMAIN data : encodable(data[n].config)
        THEN [exists |-> TRUE, json |-> TRUE, data |-> data, saved |-> <<reg>>]
        ELSE [exists |-> TRUE, json |-> FALSE, data |-> <<>>, saved |-> <<reg>>]

\* TimerManager.save_to_file; val is false when the call raises
SaveToFile ==
  /\ caller.op = "idle"
  /\ file' = save_to_file(heap, timers)
  /\ result' = Returns("save_to_file", NoTimer, save_to_file(heap, timers).json)
  /\ calls' = <<>>
  /\ UNCHANGED <<heap, timers, caller, callbacks, starting, joining>>

\* another program writes the document doc to file_path
EditFile(doc) ==
  /\ caller.op = "idle"
  /\ file' = [exists |-> TRUE, json |-> TRUE, data |-> doc, saved |-> <<>>]
  /\ UNCHANGED <<heap, timers, caller, result, callbacks, calls, starting, joining>>

\* TimerManager(): the caller goes on with a new, empty registry
NewManager ==
  /\ caller.op = "idle"
  /\ \E n \in Names : registered(timers, n)
  /\ timers' = [n \in Names |-> NoTimer]
  /\ callbacks' = <<>>
  /\ result' = NoResult
  /\ calls' = <<>>
  /\ UNCHANGED <<heap, caller, file, starting, joining>>

\* TimerManager.load_from_file of file_path: open or json.load raises and
\* the except clause prints, or the entries are loaded
LoadFile ==
  IF file.exists /\ file.json
    THEN LoadFromFile(file.data)
    ELSE /\ caller.op = "idle"
         /\ result' = Returns("load_from_file", NoTimer, TRUE)
         /\ calls' = <<>>
         /\ UNCHANGED <<heap, timers, caller, callbacks, file, starting, joining>>

\* TimerManager.__init__, and one engine a caller has constructed and added
InitFile ==
  /\ \E s1 \in TimerSpecs :
        heap = [i \in Ids |->
                  IF i = 1
                    THEN add_actions(NewTimer("a", s1.type, s1.config),
                                     s1.actions)
                    ELSE NoObject]
  /\ timers = [n \in Names |-> IF n = "a" THEN 1 ELSE NoTimer]
  /\ caller = Idle
  /\ result = NoResult
  /\ callbacks = <<>>
  /\ calls = <<>>
  /\ file = NoFile
  /\ starting = NoStart
  /\ joining = NoJoin

NextFile == SaveToFile \/ NewManager \/ LoadFile

SpecFile == InitFile /\ [][NextFile]_vars

\* the entries of the documents another program writes: two that load, one
\* with an unknown mode tag, one with an unknown action tag after a known
LoadEntries ==
  {[type |-> "countdown", config |-> [duration |-> 1], actions |-> <<"popup">>],
   [type |-> "interval", config |-> [interval |-> 1],
    actions |-> <<"command", "popup">>],
   [type |-> "sundial", config |-> [duration |-> 1], actions |-> <<"popup">>],
   [type |-> "countdown", config |-> [duration |-> 1],
    actions |-> <<"popup", "fax">>]}

LoadDocs == UNION {[D -> LoadEntries] : D \in SUBSET Names \ {{}}}

\* TimerManager.__init__ with a subscriber, and no engine
InitLoad ==
  /\ heap = [i \in Ids |-> NoObject]
  /\ timers = [n \in Names |-> NoTimer]
  /\ caller = Idle
  /\ result = NoResult
  /\ callbacks = <<"returns">>
  /\ calls = <<>>
  /\ file = NoFile
  /\ starting = NoStart
  /\ joining = NoJoin

NextLoad ==
  \/ \E doc \in LoadDocs : EditFile(doc)
  \/ LoadFile
  \/ SaveToFile

SpecLoad == InitLoad /\ [][NextLoad]_vars

(* ------------------------------ configs out of range ----------------- *)

\* the engines constructed from a config outside the range of its mode: a
\* negative duration, an interval of 0, a cycle threshold of 0 and a chain
\* whose second sub-specification has no known mode tag
BadSpecs ==
  {[type |-> "countdown", config |-> [duration |-> -1], actions |-> <<"popup">>],
   [type |-> "interval", config |-> [interval |-> 0, max_repeats |-> 1],
    actions |-> <<"popup">>],
   [type |-> "pomodoro",
    config |-> [work_duration |-> 1, break_duration |-> 1,
                long_break_duration |-> 1, cycles_until_long_break |-> 0],
    actions |-> <<"popup">>],
   [type |-> "chain",
    config |-> [chain_configs |-> <<[type |-> "countdown", duration |-> 1],
                                    [type |-> "sundial", duration |-> 1]>>],
    actions |-> <<>>]}

\* the second engine of the registry, with a config in range
GoodSpec ==
  [type |-> "countdown", config |-> [duration |-> 1], actions |-> <<"popup">>]

\* TimerManager.__init__, and no engine
InitBad ==
  /\ heap = [i \in Ids |-> NoObject]
  /\ timers = [n \in Names |-> NoTimer]
  /\ caller = Idle
  /\ result = NoResult
  /\ callbacks = <<>>
  /\ calls = <<>>
  /\ file = NoFile
  /\ starting = NoStart
  /\ joining = NoJoin

NextBad ==
  \/ \E s \in BadSpecs : Construct(1, "a", s)
  \/ Construct(2, "b", GoodSpec)
  \/ \E t \in TopIds : AddTimer(t)
  \/ StartTimer("a") \/ StopTimer("a")
  \/ JoinReturn
  \/ \E t \in Ids : Run(t) \/ Wake(t) \/ ChainJoin(t) \/ Exec(t)
  \/ Tick

SpecBad == InitBad /\ [][NextBad]_vars

(* ------------------------------ failing actions ---------------------- *)

\* the engines constructed with an action that can raise, before others
ActSpecs ==
  {[type |-> "countdown", config |-> [duration |-> 1],
    actions |-> <<"file_write", "command", "popup">>],
   [type |-> "interval",
    config |-> [interval |-> 1, max_repeats |-> MaxRepeats],
    actions |-> <<"popup", "file_write", "popup">>]}

\* TimerManager.__init__, and one engine a caller has constructed
InitAct ==
  /\ \E s1 \in ActSpecs :
        heap = [i \in Ids |->
                  IF i = 1
                    THEN add_actions(NewTimer("a", s1.type, s1.config),
                                     s1.actions)
                    ELSE NoObject]
  /\ timers = [n \in Names |-> NoTimer]
  /\ caller = Idle
  /\ result = NoResult
  /\ callbacks = <<>>
  /\ calls = <<>>
  /\ file = NoFile
  /\ starting = NoStart
  /\ joining = NoJoin

NextAct ==
  \/ \E t \in TopIds : Start(t) \/ Stop(t)
  \/ JoinReturn
  \/ \E t \in TopIds : Run(t) \/ Wake(t) \/ Exec(t) \/ CmdDone(t)
  \/ Tick

SpecAct == InitAct /\ [][NextAct]_vars

(* ------------------------------ expression values -------------------- *)

\* the conditional engines constructed where the value of the expression
\* matters: a boolean, a number, an expression that raises
CondSpecs ==
  {[type |-> "conditional",
    config |-> [condition_script |-> x, check_interval |-> 1],
    actions |-> <<"popup">>] : x \in {"True", "False", "2", "1/0"}}

\* TimerManager.__init__, and one engine a caller has constructed
InitCond ==
  /\ \E s1 \in CondSpecs :
        heap = [i \in Ids |->
                  IF i = 1
                    THEN add_actions(NewTimer("a", s1.type, s1.config),
                                     s1.actions)
                    ELSE NoObject]
  /\ timers = [n \in Names |-> NoTimer]
  /\ caller = Idle
  /\ result = NoResult
  /\ callbacks = <<>>
  /\ calls = <<>>
  /\ file = NoFile
  /\ starting = NoStart
  /\ joining = NoJoin

NextCond ==
  \/ \E t \in TopIds : Start(t) \/ Stop(t)
  \/ JoinReturn
  \/ \E t \in TopIds : Run(t) \/ Wake(t) \/ Exec(t)
  \/ Tick

SpecCond == InitCond /\ [][NextCond]_vars

(* ------------------------------ wall clock ---------------------------- *)

\* the scheduled engines constructed where the wall clock is followed:
\* marks at seconds 1 and 2 with an action that returns at once, with an
\* external command, a mark listed twice, and a mark on a weekday that
\* begins one second after the start
SchedSpecs ==
  {[type |-> "scheduled", config |-> [schedule_times |-> <<1, 2>>],
    actions |-> <<"popup">>],
   [type |-> "scheduled", config |-> [schedule_times |-> <<1, 2>>],
    actions |-> <<"command">>],
   [type |-> "scheduled", config |-> [schedule_times |-> <<1, 1>>],
    actions |-> <<>>],
   [type |-> "scheduled",
    config |-> [schedule_times |-> <<2>>, days_of_week |-> {0}],
    actions |-> <<>>]}

\* datetime.now() of a worker started at second 0 of the last minute of
\* weekday 1: the seconds since start(), weekday 0 from second 1 on
Clock(e) ==
  [weekday |-> IF e.age >= 1 THEN 0 ELSE 1, date |-> 1, time |-> e.age]

\* TimerManager.__init__, and one engine a caller has constructed
InitSched ==
  /\ \E s1 \in SchedSpecs :
        heap = [i \in Ids |->
                  IF i = 1
                    THEN add_actions(NewTimer("a", s1.type, s1.config),
                                     s1.actions)
                    ELSE NoObject]
  /\ timers = [n \in Names |-> NoTimer]
  /\ caller = Idle
  /\ result = NoResult
  /\ callbacks = <<>>
  /\ calls = <<>>
  /\ file = NoFile
  /\ starting = NoStart
  /\ joining = NoJoin

\* the worker enters _run and reads the clock
RunAt(t) ==
  /\ heap[t].pc = "run"
  /\ heap' = [heap EXCEPT ![t] = run(@, Clock(@))]
  /\ Followed(heap')
  /\ UNCHANGED <<timers, caller, result, callbacks, calls, file, starting, joining>>

\* time.sleep has returned and the worker reads the clock
WakeAt(t) ==
  /\ heap[t].pc = "sleep" /\ heap[t].left = 0
  /\ heap' = [heap EXCEPT ![t] = wake(@, Clock(@))]
  /\ Followed(heap')
  /\ UNCHANGED <<timers, caller, result, callbacks, calls, file, starting, joining>>

NextSched ==
  \/ \E t \in TopIds : Start(t) \/ Stop(t)
  \/ JoinReturn
  \/ \E t \in TopIds : RunAt(t) \/ WakeAt(t) \/ Marks(t) \/ Exec(t) \/ CmdDone(t)
  \/ Tick

SpecSched == InitSched /\ [][NextSched]_vars

(* ------------------------------ subscribers --------------------------- *)

\* TimerManager.add_callback
AddCallback(cb) ==
  /\ caller.op = "idle"
  /\ Len(callbacks) < MaxCallbacks
  /\ callbacks' = Append(callbacks, cb)
  /\ result' = Returns("add_callback", NoTimer, TRUE)
  /\ calls' = <<>>
  /\ UNCHANGED <<heap, timers, caller, file, starting, joining>>

\* the orders in which self.timers.values() can list the registered engines
Orders(reg) ==
  LET R == {reg[n] : n \in {m \in Names : registered(reg, m)}}
  IN  {o \in UNION {[1..k -> R] : k \in 0..Cardinality(Names)} :
         /\ Len(o) = Cardinality(R)
         /\ \A i, j \in 1..Len(o) : i # j => o[i] # o[j]}

\* stop_all that ends at the first engine whose thread it has joined
RECURSIVE stop_each_first(_, _)
stop_each_first(h, todo) ==
  IF todo = <<>> THEN [heap |-> h, t |-> NoTimer, todo |-> <<>>]
  ELSE IF h[Head(todo)].pc = "none"
    THEN stop_each_first([h EXCEPT ![Head(todo)] = stop_set(@)], Tail(todo))
  ELSE [heap |-> [h EXCEPT ![Head(todo)] = stop_set(@)],
        t |-> Head(todo), todo |-> <<>>]

\* stop_all: timer.stop() for the engines of todo in turn, up to the first
\* that has a thread to join (t), with the engines still to come (todo)
RECURSIVE stop_each(_, _)
stop_each(h, todo) ==
  IF todo = <<>> THEN [heap |-> h, t |-> NoTimer, todo |-> <<>>]
  ELSE IF h[Head(todo)].pc = "none"
    THEN stop_each([h EXCEPT ![Head(todo)] = stop_set(@)], Tail(todo))
  ELSE [heap |-> [h EXCEPT ![Head(todo)] = stop_set(@)],
        t |-> Head(todo), todo |-> Tail(todo)]

\* stop_all goes on from the engines of todo: it returns, or joins the next
\* thread
stop_rest(todo) ==
  LET r == stop_each(heap, todo)
  IN  /\ heap' = r.heap
      /\ IF r.t = NoTimer
           THEN /\ caller' = Idle
                /\ result' = Returns("stop_all", NoTimer, TRUE)
           ELSE /\ caller' = [op |-> "stop_all", t |-> r.t,
                              left |-> JoinTimeout, todo |-> r.todo]
                /\ result' = NoResult
      /\ calls' = <<>>
      /\ UNCHANGED <<timers, callbacks, file, starting, joining>>

\* TimerManager.stop_all
StopAll ==
  /\ caller.op = "idle"
  /\ \E o \in Orders(timers) : stop_rest(o)

\* stop_all: a join has returned, the loop goes on
StopAllNext ==
  /\ caller.op = "stop_all"
  /\ ~is_alive(heap[caller.t]) \/ caller.left = 0
  /\ stop_rest(caller.todo)

\* the engines constructed where the subscribers are followed: a chain
\* without sub-timers, whose worker exits at once
CbSpecs ==
  {[type |-> "chain", config |-> [chain_configs |-> <<>>], actions |-> <<>>]}

\* the persisted documents loaded there
CbDocs == UNION {[D -> CbSpecs] : D \in SUBSET Names \ {{}}}

\* TimerManager.__init__, and one engine a caller has constructed
InitCb ==
  /\ \E s1 \in CbSpecs :
        heap = [i \in Ids |->
                  IF i = 1
                    THEN add_actions(NewTimer("a", s1.type, s1.config),
                                     s1.actions)
                    ELSE NoObject]
  /\ timers = [n \in Names |-> NoTimer]
  /\ caller = Idle
  /\ result = NoResult
  /\ callbacks = <<>>
  /\ calls = <<>>
  /\ file = NoFile
  /\ starting = NoStart
  /\ joining = NoJoin

NextCb ==
  \/ \E cb \in Callbacks : AddCallback(cb)
  \/ \E t \in TopIds : AddTimer(t)
  \/ \E n \in Names : RemoveTimer(n) \/ StartTimer(n) \/ StopTimer(n)
  \/ \E doc \in CbDocs : LoadFromFile(doc)
  \/ StopAll
  \/ StopAllNext
  \/ JoinReturn
  \/ \E t \in TopIds : Run(t)

SpecCb == InitCb /\ [][NextCb]_vars

(* --------------------------- several callers -------------------------- *)

\* the engine two threads start and stop
RaceSpecs ==
  {[type |-> "countdown", config |-> [duration |-> 1], actions |-> <<"popup">>],
   [type |-> "interval", config |-> [interval |-> 1, max_repeats |-> 0],
    actions |-> <<>>]}

InitRace ==
  /\ \E s1 \in RaceSpecs :
        heap = [i \in Ids |->
                  IF i = 1
                    THEN add_actions(NewTimer("a", s1.type, s1.config),
                                     s1.actions)
                    ELSE NoObject]
  /\ timers = [n \in Names |-> NoTimer]
  /\ caller = Idle
  /\ result = NoResult
  /\ callbacks = <<>>
  /\ calls = <<>>
  /\ file = NoFile
  /\ starting = NoStart
  /\ joining = NoJoin

\* the threads of the engine that are alive: the one self.thread refers
\* to and the ones it referred to before
live_workers(e) == e.orphans + (IF is_alive(e) THEN 1 ELSE 0)

\* start() by caller c, up to its test of self.thread: with a live thread
\* it returns False, else it goes on
StartTest(c, t) ==
  /\ starting[c] = NoTimer
  /\ joining[c] = NoTimer
  /\ heap[t].exists
  /\ heap[t].runs < MaxRuns
  /\ IF is_alive(heap[t])
       THEN /\ result' = Returns("start", t, FALSE)
            /\ starting' = starting
       ELSE /\ result' = result
            /\ starting' = [starting EXCEPT ![c] = t]
  /\ calls' = <<>>
  /\ UNCHANGED <<heap, timers, caller, callbacks, file, joining>>

\* the rest of start() by caller c: stop_event.clear(), a new thread
\* assigned to self.thread and started; the thread self.thread referred to
\* lives on
StartLaunch(c) ==
  /\ starting[c] # NoTimer
  /\ heap[starting[c]].runs < MaxRuns
  /\ heap' = [heap EXCEPT ![starting[c]] =
                [new_run([@ EXCEPT !.stop_event = FALSE])
                   EXCEPT !.orphans = live_workers(heap[starting[c]])]]
  /\ result' = Returns("start", starting[c], TRUE)
  /\ starting' = [starting EXCEPT ![c] = NoTimer]
  /\ calls' = <<>>
  /\ UNCHANGED <<timers, caller, callbacks, file, joining>>

\* two threads call start() and stop() on one engine; the run is followed
\* as long as self.thread refers to every live thread of the engine
NextRace ==
  \/ \E c \in Callers : StartTest(c, 1) \/ StartLaunch(c)
  \/ Stop(1)
  \/ JoinReturn
  \/ /\ heap[1].orphans = 0
     /\ \/ Run(1) \/ Wake(1) \/ Exec(1)
        \/ Tick

SpecRace == InitRace /\ [][NextRace]_vars

(* --------------------------- sub-timer modes -------------------------- *)

\* the first sub-timer of the chains that are stopped and restarted: one of
\* each mode but chain
SubConfigs ==
  {[type |-> "countdown", duration |-> 1],
   [type |-> "interval", interval |-> 1, max_repeats |-> 1],
   [type |-> "scheduled", schedule_times |-> <<>>, days_of_week |-> {0}],
   [type |-> "conditional", condition_script |-> "False", check_interval |-> 1],
   [type |-> "pomodoro", work_duration |-> 1, break_duration |-> 1,
    long_break_duration |-> 1, cycles_until_long_break |-> 1],
   [type |-> "stopwatch"]}

\* one chain engine of two sub-timers, the second a countdown
InitSub ==
  /\ \E c \in SubConfigs :
        heap = [i \in Ids |->
                  IF i = 1
                    THEN NewTimer("a", "chain",
                                  [chain_configs |->
                                     <<c, [type |-> "countdown", duration |-> 1]>>])
                    ELSE NoObject]
  /\ timers = [n \in Names |-> NoTimer]
  /\ caller = Idle
  /\ result = NoResult
  /\ callbacks = <<>>
  /\ calls = <<>>
  /\ file = NoFile
  /\ starting = NoStart
  /\ joining = NoJoin

\* stop_event.wait or the sub-timer's time.sleep(0.1) has returned
WakeSub(t) == heap[t].pc # "sleep" /\ Wake(t)

\* the chain is started and stopped; its sub-timers read the clock of a
\* worker started in the last minute of a weekday that is not allowed
NextSub ==
  \/ Start(1) \/ Stop(1)
  \/ JoinReturn
  \/ Run(1) \/ Wake(1) \/ ChainJoin(1)
  \/ \E t \in ChildIds : RunAt(t) \/ WakeAt(t) \/ WakeSub(t) \/ Exec(t)
  \/ Tick

SpecSub == InitSub /\ [][NextSub]_vars

(* --------------------------- a registered chain ----------------------- *)

\* the sub-specifications of the chain that is registered: the first lists
\* an action
OwnConfigs ==
  <<[type |-> "countdown", duration |-> 1, actions |-> <<"popup">>],
    [type |-> "interval", interval |-> 1, max_repeats |-> 1]>>

\* the persisted document loaded next to the chain
OwnDoc ==
  [n \in {"b"} |->
     [type |-> "countdown", config |-> [duration |-> 1], actions |-> <<>>]]

\* TimerManager.__init__ with one subscriber, and a chain engine with an
\* action of its own that a caller has constructed
InitOwn ==
  /\ heap = [i \in Ids |->
               IF i = 1
                 THEN add_actions(NewTimer("a", "chain",
                                           [chain_configs |-> OwnConfigs]),
                                  <<"popup">>)
                 ELSE NoObject]
  /\ timers = [n \in Names |-> NoTimer]
  /\ caller = Idle
  /\ result = NoResult
  /\ callbacks = <<"returns">>
  /\ calls = <<>>
  /\ file = NoFile
  /\ starting = NoStart
  /\ joining = NoJoin

NextOwn ==
  \/ AddTimer(1) \/ RemoveTimer("a")
  \/ StartTimer("a") \/ StopTimer("a")
  \/ Start(1)
  \/ LoadFromFile(OwnDoc)
  \/ JoinReturn
  \/ \E t \in Ids : Run(t) \/ Wake(t) \/ ChainJoin(t) \/ Exec(t)
  \/ Tick

SpecOwn == InitOwn /\ [][NextOwn]_vars

(* --------------------------- two names, two callers ------------------- *)

\* the engines registered as "a" and "b"
PairSpecs ==
  <<[type |-> "countdown", config |-> [duration |-> 1], actions |-> <<"popup">>],
    [type |-> "interval", config |-> [interval |-> 1, max_repeats |-> 1],
     actions |-> <<"command">>]>>

\* the engine registered under the name caller c starts and stops
NameOf(c) == IF c = 1 THEN "a" ELSE "b"

\* TimerManager.__init__, and two engines constructed and added
InitPair ==
  /\ heap = [i \in Ids |->
               IF i \in TopIds
                 THEN add_actions(NewTimer(NameOf(i), PairSpecs[i].type,
                                           PairSpecs[i].config),
                                  PairSpecs[i].actions)
                 ELSE NoObject]
  /\ timers = [n \in Names |-> IF n = "a" THEN 1 ELSE 2]
  /\ caller = Idle
  /\ result = NoResult
  /\ callbacks = <<>>
  /\ calls = <<>>
  /\ file = NoFile
  /\ starting = NoStart
  /\ joining = NoJoin

\* stop() that sets the event of every engine
StopSet_all(c, t) ==
  /\ starting[c] = NoTimer
  /\ joining[c] = NoTimer
  /\ heap[t].exists
  /\ heap' = [i \in Ids |-> IF heap[i].exists THEN stop_set(heap[i]) ELSE heap[i]]
  /\ IF heap[t].pc = "none"
       THEN /\ result' = Returns("stop", t, TRUE)
            /\ joining' = joining
       ELSE /\ result' = result
            /\ joining' = [joining EXCEPT ![c] = t]
  /\ calls' = <<>>
  /\ UNCHANGED <<timers, caller, callbacks, file, starting>>

\* stop() by caller c, up to its join: the event is set; without a thread
\* the call returns, else the caller joins the thread
StopSet(c, t) ==
  /\ starting[c] = NoTimer
  /\ joining[c] = NoTimer
  /\ heap[t].exists
  /\ heap' = [heap EXCEPT ![t] = stop_set(@)]
  /\ IF heap[t].pc = "none"
       THEN /\ result' = Returns("stop", t, TRUE)
            /\ joining' = joining
       ELSE /\ result' = result
            /\ joining' = [joining EXCEPT ![c] = t]
  /\ calls' = <<>>
  /\ UNCHANGED <<timers, caller, callbacks, file, starting>>

\* thread.join(timeout=1) of caller c returns, and stop() with it: the
\* worker has exited or the timeout has passed; the moment at which the
\* caller goes on is not followed
JoinDone(c) ==
  /\ joining[c] # NoTimer
  /\ result' = Returns("stop", joining[c], TRUE)
  /\ joining' = [joining EXCEPT ![c] = NoTimer]
  /\ calls' = <<>>
  /\ UNCHANGED <<heap, timers, caller, callbacks, file, starting>>

\* each caller starts and stops the engine of its name, through
\* start_timer and stop_timer
NextPair ==
  \/ \E c \in Callers :
       \/ StartTest(c, timers[NameOf(c)])
       \/ StartLaunch(c)
       \/ StopSet(c, timers[NameOf(c)])
       \/ JoinDone(c)
  \/ \E t \in TopIds : Run(t) \/ Wake(t) \/ Exec(t) \/ CmdDone(t)
  \/ Tick

SpecPair == InitPair /\ [][NextPair]_vars

(* --------------------------- all engines at once ---------------------- *)

\* the engines registered as "a" and "b" where all are started and
\* stopped: the first runs an external command at its trigger
AllSpecs ==
  <<[type |-> "countdown", config |-> [duration |-> 1],
     actions |-> <<"command">>],
    [type |-> "interval", config |-> [interval |-> 1, max_repeats |-> 1],
     actions |-> <<"popup">>]>>

\* TimerManager.__init__ with one subscriber, and two engines constructed
\* and added
InitAll ==
  /\ heap = [i \in Ids |->
               IF i \in TopIds
                 THEN add_actions(NewTimer(NameOf(i), AllSpecs[i].type,
                                           AllSpecs[i].config),
                                  AllSpecs[i].actions)
                 ELSE NoObject]
  /\ timers = [n \in Names |-> IF n = "a" THEN 1 ELSE 2]
  /\ caller = Idle
  /\ result = NoResult
  /\ callbacks = <<"returns">>
  /\ calls = <<>>
  /\ file = NoFile
  /\ starting = NoStart
  /\ joining = NoJoin

\* the engines of the registry
Registered(reg) == {reg[n] : n \in RegNames(reg)}

\* TimerApp.start_all_timers: start_timer for each name of list_timers(),
\* with the count of the calls that returned True
StartAll ==
  /\ caller.op = "idle"
  /\ \A t \in Registered(timers) : is_alive(heap[t]) \/ heap[t].runs < MaxRuns
  /\ heap' = [t \in Ids |->
                IF t \in Registered(timers) THEN start(heap[t]).self ELSE heap[t]]
  /\ result' = [op |-> "start_all", t |-> NoTimer, val |-> TRUE,
                count |-> Cardinality({t \in Registered(timers) :
                                         start(heap[t]).ret})]
  /\ calls' = <<>>
  /\ UNCHANGED <<timers, caller, callbacks, file, starting, joining>>

NextAll ==
  \/ StartAll
  \/ StopAll
  \/ StopAllNext
  \/ \E n \in Names : StartTimer(n) \/ StopTimer(n)
  \/ JoinReturn
  \/ \E t \in TopIds : Run(t) \/ Wake(t) \/ Exec(t) \/ CmdDone(t)
  \/ Tick

SpecAll == InitAll /\ [][NextAll]_vars

(* --------------------------- pause and resume ------------------------- *)

\* the engines that are paused and resumed
PauseSpecs ==
  {[type |-> "countdown", config |-> [duration |-> 2], actions |-> <<"popup">>],
   [type |-> "interval", config |-> [interval |-> 1, max_repeats |-> 2],
    actions |-> <<>>],
   [type |-> "pomodoro",
    config |-> [work_duration |-> 1, break_duration |-> 1,
                long_break_duration |-> 1, cycles_until_long_break |-> 1],
    actions |-> <<>>]}

InitPause ==
  /\ \E s1 \in PauseSpecs :
        heap = [i \in Ids |->
                  IF i = 1
                    THEN add_actions(NewTimer("a", s1.type, s1.config),
                                     s1.actions)
                    ELSE NoObject]
  /\ timers = [n \in Names |-> NoTimer]
  /\ caller = Idle
  /\ result = NoResult
  /\ callbacks = <<>>
  /\ calls = <<>>
  /\ file = NoFile
  /\ starting = NoStart
  /\ joining = NoJoin

\* engine.pause() by the caller
Pause(t) ==
  /\ caller.op = "idle"
  /\ heap[t].exists /\ ~heap[t].paused
  /\ heap' = [heap EXCEPT ![t] = pause(@)]
  /\ result' = Returns("pause", t, FALSE)
  /\ calls' = <<>>
  /\ UNCHANGED <<timers, caller, callbacks, file, starting, joining>>

\* engine.resume() by the caller
Resume(t) ==
  /\ caller.op = "idle"
  /\ heap[t].exists /\ heap[t].paused
  /\ heap' = [heap EXCEPT ![t] = resume(@)]
  /\ result' = Returns("resume", t, FALSE)
  /\ calls' = <<>>
  /\ UNCHANGED <<timers, caller, callbacks, file, starting, joining>>

NextPause ==
  \/ Start(1) \/ Stop(1)
  \/ Pause(1) \/ Resume(1)
  \/ JoinReturn
  \/ Run(1) \/ Wake(1) \/ Exec(1)
  \/ Tick

SpecPause == InitPause /\ [][NextPause]_vars

(* ------------------------------ properties ---------------------------- *)

\* the countdown duration an engine was constructed with
Duration(e) == Get(e.config, "duration", 0)

\* C1: a countdown engine of duration D, started for the first time and not
\* cancelled, has not triggered while it counts down, triggers once when D
\* ticks have passed since start(), runs its actions and exits with
\* trigger_count 1.
C1_CountdownTriggersOnce ==
  \A t \in Ids :
    LET e == heap[t]
    IN  e.exists /\ e.timer_type = "countdown" /\ e.runs = 1 /\ ~e.cancelled =>
          /\ e.pc \in {"run", "sleep"} =>
               /\ e.trigger_count = 0
               /\ e.last_triggered = NoTime
               /\ e.age + e.remaining_time <= Duration(e) + 1
               /\ e.pc = "sleep" => e.age + e.remaining_time + e.left
                                      = Duration(e) + 1
          /\ e.pc \in {"exec", "cmd", "dead"} =>
               /\ e.trigger_count = 1
               /\ e.run_triggers = 1
               /\ e.trigger_age = Duration(e)
               /\ e.remaining_time = 0
          /\ e.pc = "dead" => e.executed = Len(e.actions)

C1_Witness ==
  /\ heap[1].timer_type = "countdown"
  /\ Duration(heap[1]) = MaxDuration
  /\ heap[1].runs = 1 /\ ~heap[1].cancelled
  /\ heap[1].pc = "dead"
  /\ heap[1].trigger_count = 1
  /\ heap[1].trigger_age = MaxDuration

\* C2: a countdown run that stop() cancels before it has triggered ends
\* without a trigger: no trigger and no action in that run, and on a first
\* run trigger_count and last_triggered keep their initial values.
C2_CancelledCountdownNeverTriggers ==
  \A t \in Ids :
    LET e == heap[t]
    IN  /\ e.exists /\ e.timer_type = "countdown"
        /\ e.cancelled /\ e.cancel_triggers = 0
        => /\ e.run_triggers = 0
           /\ e.executed = 0
           /\ e.pc \notin {"exec", "cmd"}
           /\ e.runs = 1 => e.trigger_count = 0 /\ e.last_triggered = NoTime

C2_Witness ==
  /\ heap[1].timer_type = "countdown"
  /\ heap[1].cancelled /\ heap[1].cancel_triggers = 0
  /\ heap[1].remaining_time > 0
  /\ heap[1].pc = "dead"
  /\ heap[1].trigger_count = 0

\* the interval and max_repeats an engine was constructed with
Interval(e) == Get(e.config, "interval", DefaultInterval)
MaxRepeatsOf(e) == Get(e.config, "max_repeats", -1)

\* C3: an interval run that is not cancelled triggers once per elapsed
\* interval; with max_repeats N > 0 it stops by itself after exactly N
\* triggers, with max_repeats <= 0 its worker never exits.
C3_IntervalRepeats ==
  \A t \in Ids :
    LET e == heap[t]
        N == MaxRepeatsOf(e)
    IN  e.exists /\ e.timer_type = "interval" /\ e.runs >= 1 /\ ~e.cancelled =>
          /\ e.pc = "wait" => e.count = e.run_triggers /\ e.left <= Interval(e)
          /\ e.actions = <<>> /\ e.run_triggers >= 1 =>
               e.trigger_age = Min(e.run_triggers * Interval(e), MaxElapsed)
          /\ IF N > 0
               THEN /\ e.run_triggers <= N
                    /\ e.pc = "wait" => e.run_triggers < N
                    /\ e.pc = "dead" => e.run_triggers = N /\ e.count = N
               ELSE e.pc # "dead"

C3_Witness ==
  /\ heap[1].timer_type = "interval"
  /\ MaxRepeatsOf(heap[1]) = MaxRepeats
  /\ heap[1].runs = 1 /\ ~heap[1].cancelled
  /\ heap[1].pc = "dead"
  /\ heap[1].run_triggers = MaxRepeats

\* the longest wait of a mode's run loop that cancellation cannot cut short,
\* as the modes are documented: 1 s for countdown, scheduled and the
\* pomodoro cycles, none for the interruptible waits of interval and
\* conditional, 0.1 s (within one tick) for stopwatch and chain
Granularity(ty) ==
  CASE ty \in {"countdown", "scheduled", "pomodoro"} -> TickSleep
    [] ty \in {"interval", "conditional"} -> 0
    [] OTHER -> PollSleep

\* C4: in every mode a worker outside an action lives for at most twice the
\* mode's granularity once stop() has set the signal.
C4_CancelWithinGranularity ==
  \A t \in Ids :
    heap[t].exists /\ is_alive(heap[t]) =>
      heap[t].late <= 2 * Granularity(heap[t].timer_type)

\* C5: start() on an engine with a live worker returns false and changes
\* nothing (no new worker, signal, runtime state and counters as they were);
\* start() on an engine without a live worker returns true, clears the
\* signal and launches one worker on that engine and no other.
C5_StartOnlyWithoutWorker ==
  [][\A t \in TopIds :
       Start(t) =>
         IF is_alive(heap[t])
           THEN /\ result'.val = FALSE
                /\ heap' = heap
           ELSE /\ result'.val = TRUE
                /\ ~heap'[t].stop_event
                /\ heap'[t].pc = "run"
                /\ heap'[t].runs = heap[t].runs + 1
                /\ heap'[t].trigger_count = heap[t].trigger_count
                /\ \A x \in Ids \ {t} : heap'[x] = heap[x]]_vars

C5_Witness ==
  /\ result.op = "start" /\ result.t = 1 /\ ~result.val
  /\ heap[1].runs = 1
  /\ is_alive(heap[1])
  /\ heap[1].stop_event

\* C6 as stated: whenever stop() has returned on an engine, or its run has
\* finished naturally, the next start() returns true and launches a run
\* with a clear signal.
C6_StoppedIsRestartable ==
  /\ result.op \in {"stop", "stop_timer"} /\ result.val =>
       /\ start(heap[result.t]).ret
       /\ ~start(heap[result.t]).self.stop_event
  /\ \A t \in TopIds :
       heap[t].pc = "dead" =>
         start(heap[t]).ret /\ ~start(heap[t]).self.stop_event

\* C6 amended: once the worker of an engine has exited, after a stop() or
\* naturally, the next start() returns true and launches a new run with a
\* clear signal; a start() after stop() has returned while the worker is
\* still alive returns false.
C6_RestartableOnceExited ==
  [][\A t \in TopIds :
       Start(t) /\ heap[t].runs >= 1 =>
         IF heap[t].pc = "dead"
           THEN /\ result'.val = TRUE
                /\ heap'[t].pc = "run"
                /\ ~heap'[t].stop_event
                /\ ~heap'[t].cancelled
                /\ heap'[t].runs = heap[t].runs + 1
           ELSE /\ result'.val = FALSE
                /\ heap'[t].runs = heap[t].runs]_vars

C6_Witness ==
  /\ result.op = "start" /\ result.t = 1 /\ result.val
  /\ heap[1].runs = 2
  /\ heap[1].pc = "run"
  /\ ~heap[1].stop_event

\* C7: stop() on an engine without a live worker only sets the signal: no
\* worker, no trigger, counters and runtime state as they were; the start()
\* after it clears the stale signal, so that a live worker sees the signal
\* set only by a stop() of its own run.
C7_StopWithoutWorker ==
  /\ [](\A t \in Ids :
          is_alive(heap[t]) /\ heap[t].stop_event => heap[t].cancelled)
  /\ [][\A t \in TopIds :
          /\ Stop(t) /\ ~is_alive(heap[t]) =>
               /\ heap' = [heap EXCEPT ![t].stop_event = TRUE]
               /\ timers' = timers
          /\ Start(t) /\ ~is_alive(heap[t]) /\ heap[t].stop_event =>
               /\ result'.val = TRUE
               /\ heap'[t].pc = "run"
               /\ ~heap'[t].stop_event]_vars

C7_Witness ==
  /\ result.op = "stop" /\ result.t = 1 /\ result.val
  /\ heap[1].runs = 1
  /\ heap[1].pc = "dead"
  /\ heap[1].stop_event
  /\ ~heap[1].cancelled
  /\ heap[1].trigger_count = 1

\* C8: add_timer of an engine whose name is registered returns false and
\* leaves the registry and every engine as they were; load_from_file leaves
\* every registered name with its engine, and that engine untouched; a
\* registered name maps to one engine of that name, and no engine is
\* registered under two names.
C8_AddRejectsDuplicates ==
  /\ [](\A n \in Names :
          registered(timers, n) =>
            /\ heap[timers[n]].exists
            /\ heap[timers[n]].name = n
            /\ \A m \in Names \ {n} : timers[m] # timers[n])
  /\ [][/\ \A t \in TopIds :
             AddTimer(t) =>
               IF registered(timers, heap[t].name)
                 THEN /\ result'.val = FALSE
                      /\ timers' = timers
                      /\ heap' = heap
                 ELSE /\ result'.val = TRUE
                      /\ timers' = [timers EXCEPT ![heap[t].name] = t]
                      /\ heap' = heap
        /\ \A doc \in Docs :
             LoadFromFile(doc) =>
               \A n \in Names :
                 registered(timers, n) =>
                   /\ timers'[n] = timers[n]
                   /\ heap'[timers[n]] = heap[timers[n]]]_vars

C8_Witness ==
  /\ result.op = "add_timer" /\ result.t = 2 /\ ~result.val
  /\ heap[2].name = "a"
  /\ timers["a"] = 1
  /\ is_alive(heap[1])
  /\ heap[1].trigger_count = 1

\* C9: remove_timer of a registered name sets the engine's signal while the
\* entry is still there, then deletes that entry alone and returns true;
\* remove_timer of an absent name returns false and changes neither the
\* registry nor any engine.
C9_RemoveStopsThenDeletes ==
  /\ [](caller.op = "remove_timer" =>
          /\ heap[caller.t].stop_event
          /\ timers[heap[caller.t].name] = caller.t)
  /\ [][/\ \A n \in Names :
             RemoveTimer(n) =>
               IF registered(timers, n)
                 THEN /\ heap'[timers[n]].stop_event
                      /\ \A x \in Ids \ {timers[n]} : heap'[x] = heap[x]
                      /\ \A m \in Names \ {n} : timers'[m] = timers[m]
                      /\ \/ /\ timers'[n] = timers[n]
                            /\ caller'.op = "remove_timer"
                         \/ /\ timers'[n] = NoTimer
                            /\ caller' = Idle
                            /\ result'.op = "remove_timer" /\ result'.val
                 ELSE /\ result'.val = FALSE
                      /\ UNCHANGED <<heap, timers, caller>>
        /\ JoinReturn /\ caller.op = "remove_timer" =>
             /\ timers' = del_timer(timers, heap[caller.t].name)
             /\ result'.op = "remove_timer" /\ result'.val
             /\ heap' = heap]_vars

C9_Witness ==
  /\ result.op = "remove_timer" /\ result.t = 1 /\ result.val
  /\ timers["a"] = NoTimer
  /\ heap[1].stop_event
  /\ heap[1].cancelled
  /\ timers["b"] = 2

\* C10: when remove_timer has returned true the removed engine has no live
\* worker and triggers no more.
C10_RemovedEngineIsDestroyed ==
  result.op = "remove_timer" /\ result.val =>
    /\ ~is_alive(heap[result.t])
    /\ heap[result.t].trigger_count = result.count

\* C11: start_timer and stop_timer of an absent name return false and change
\* no engine and no entry; start_timer of a registered name returns true
\* exactly when it launched a worker on that engine (the engine had none
\* alive), and stop_timer of a registered name sets that engine's signal,
\* leaves the registry as it is and returns true.
C11_StartStopByName ==
  [][\A n \in Names :
       /\ StartTimer(n) =>
            IF registered(timers, n)
              THEN /\ result'.val = ~is_alive(heap[timers[n]])
                   /\ result'.val = (heap'[timers[n]].runs
                                       = heap[timers[n]].runs + 1)
                   /\ ~result'.val => heap' = heap
                   /\ result'.val => /\ heap'[timers[n]].pc = "run"
                                     /\ ~heap'[timers[n]].stop_event
                   /\ \A x \in Ids \ {timers[n]} : heap'[x] = heap[x]
                   /\ timers' = timers
              ELSE /\ result'.val = FALSE
                   /\ UNCHANGED <<heap, timers, caller>>
       /\ StopTimer(n) =>
            IF registered(timers, n)
              THEN /\ heap'[timers[n]].stop_event
                   /\ \A x \in Ids \ {timers[n]} : heap'[x] = heap[x]
                   /\ timers' = timers
                   /\ \/ caller'.op = "stop_timer" /\ caller'.t = timers[n]
                      \/ caller' = Idle /\ result'.op = "stop_timer"
                                        /\ result'.val
              ELSE /\ result'.val = FALSE
                   /\ UNCHANGED <<heap, timers, caller>>
       /\ JoinReturn /\ caller.op = "stop_timer" =>
            /\ result'.op = "stop_timer" /\ result'.val
            /\ UNCHANGED <<heap, timers>>]_vars

C11_Witness ==
  /\ result.op = "start_timer" /\ result.t = NoTimer /\ ~result.val
  /\ timers["a"] = NoTimer
  /\ timers["b"] = 2
  /\ is_alive(heap[2])
  /\ heap[1].runs = 1

\* the calls log holds one call per subscription, in subscription order,
\* each finding the mapping reg
NotifiedOnce(log, cbs, reg) ==
  /\ Len(log) = Len(cbs)
  /\ \A i \in 1..Len(cbs) : log[i].cb = cbs[i] /\ log[i].seen = reg

\* C12: a successful add_timer and a successful remove_timer call every
\* subscribed callback once, in subscription order, after the mapping has
\* changed, also when one of them raises, and the change stays; a rejected
\* add, a remove of an absent name, start_timer, stop_timer and stop_all
\* call none.
C12_CallbacksOnChange ==
  [][/\ \A t \in TopIds :
          AddTimer(t) =>
            IF registered(timers, heap[t].name)
              THEN calls' = <<>> /\ timers' = timers
              ELSE /\ timers'[heap[t].name] = t
                   /\ result'.val
                   /\ NotifiedOnce(calls', callbacks, timers')
     /\ \A n \in Names :
          /\ RemoveTimer(n) =>
               IF registered(timers, n) /\ caller'.op = "idle"
                 THEN /\ timers'[n] = NoTimer
                      /\ result'.val
                      /\ NotifiedOnce(calls', callbacks, timers')
                 ELSE calls' = <<>> /\ timers' = timers
          /\ StartTimer(n) \/ StopTimer(n) => calls' = <<>> /\ timers' = timers
     /\ JoinReturn =>
          IF caller.op = "remove_timer"
            THEN /\ timers'[heap[caller.t].name] = NoTimer
                 /\ result'.val
                 /\ NotifiedOnce(calls', callbacks, timers')
            ELSE calls' = <<>> /\ timers' = timers
     /\ StopAll \/ StopAllNext => calls' = <<>> /\ timers' = timers]_vars

C12_Witness ==
  /\ result.op = "remove_timer" /\ result.val
  /\ callbacks = <<"raises", "returns">>
  /\ Len(calls) = 2
  /\ calls[2].cb = "returns"
  /\ calls[2].seen["a"] = NoTimer
  /\ heap[result.t].cancelled

\* C13: the actions of a trigger are executed on the engine's worker in the
\* order of add_action, each once: inside a trigger the actions done are
\* the first ai - 1 attached ones, in order; outside a trigger every
\* trigger of the run has executed the whole sequence, so the next trigger
\* starts only after the last action of the one before.
C13_ActionsInOrder ==
  \A t \in Ids :
    LET e == heap[t]
        n == Len(e.actions)
    IN  e.exists =>
          IF e.pc \in {"exec", "cmd"}
            THEN /\ e.run_triggers >= 1
                 /\ e.ai \in 1..(n + 1)
                 /\ e.pc = "cmd" => e.ai <= n
                 /\ e.done = SubSeq(e.actions, 1, e.ai - 1)
                 /\ e.executed = (e.run_triggers - 1) * n + e.ai - 1
            ELSE /\ e.executed = e.run_triggers * n
                 /\ e.done = IF e.run_triggers >= 1 THEN e.actions ELSE <<>>

C13_Witness ==
  /\ heap[1].actions = <<"command", "popup">>
  /\ heap[1].run_triggers = 2
  /\ heap[1].pc = "exec"
  /\ heap[1].ai = 2
  /\ heap[1].done = <<"command">>
  /\ heap[1].executed = 3

\* C14: an action that raises is contained: the later actions of the same
\* trigger are executed in order, the trigger is counted, and the run loop
\* goes on as after a success (an uncancelled interval run still makes all
\* its triggers, and the worker ends only where the mode ends it).
C14_FailedActionContained ==
  \A t \in Ids :
    LET e == heap[t]
        n == Len(e.actions)
    IN  e.exists /\ e.failures >= 1 =>
          /\ e.trigger_count >= e.run_triggers
          /\ e.failures <= e.executed
          /\ IF e.pc \in {"exec", "cmd"}
               THEN e.done = SubSeq(e.actions, 1, e.ai - 1)
               ELSE e.done = e.actions /\ e.executed = e.run_triggers * n
          /\ e.timer_type = "interval" /\ ~e.cancelled =>
               /\ e.pc = "dead" => e.run_triggers = MaxRepeatsOf(e)
               /\ e.pc = "wait" => e.run_triggers < MaxRepeatsOf(e)

C14_Witness ==
  /\ heap[1].timer_type = "interval"
  /\ ~heap[1].cancelled
  /\ heap[1].failures = 2
  /\ heap[1].run_triggers = 2
  /\ heap[1].pc = "dead"
  /\ heap[1].done = <<"popup", "file_write", "popup">>

\* the sub-timers of chain engine t at position i of its chain_configs
SubTimers(t, i) ==
  {c \in ChildIds : heap[c].exists /\ heap[c].name = ChainName(heap[t].name, i)}

\* C15: an uncancelled chain [countdown D, interval x N] runs its sub-timers
\* one after the other in configured order: the second is constructed only
\* when the worker of the first has exited after its one trigger, at most
\* one sub-timer is alive, and the chain's worker exits only when the
\* second has exited after exactly N triggers.
C15_ChainSequential ==
  \A t \in TopIds :
    LET e == heap[t]
        cfgs == Get(e.config, "chain_configs", <<>>)
    IN  /\ e.exists /\ e.timer_type = "chain" /\ Len(cfgs) = 2
        /\ e.runs = 1 /\ ~e.cancelled
        => /\ Cardinality({c \in ChildIds : is_alive(heap[c])}) <= 1
           /\ Cardinality(SubTimers(t, 0)) <= 1
           /\ Cardinality(SubTimers(t, 1)) <= 1
           /\ is_alive(e) /\ e.pc # "run" =>
                /\ heap[e.chain_timer].name
                     = ChainName(e.name, e.current_chain_index)
                /\ e.pc = "nap" => ~heap[e.chain_timer].stop_event
           /\ \A c \in SubTimers(t, 0) :
                /\ heap[c].timer_type = "countdown"
                /\ ~heap[c].cancelled
                /\ heap[c].trigger_count <= 1
           /\ \A c \in SubTimers(t, 1) :
                /\ heap[c].timer_type = "interval"
                /\ ~heap[c].cancelled
                /\ heap[c].trigger_count <= cfgs[2].max_repeats
                /\ \A b \in SubTimers(t, 0) :
                     heap[b].pc = "dead" /\ heap[b].trigger_count = 1
           /\ e.pc = "dead" =>
                /\ SubTimers(t, 0) # {} /\ SubTimers(t, 1) # {}
                /\ \A c \in SubTimers(t, 1) :
                     /\ heap[c].pc = "dead"
                     /\ heap[c].trigger_count = cfgs[2].max_repeats
                /\ e.current_chain_index = 1

C15_Witness ==
  /\ heap[1].timer_type = "chain"
  /\ heap[1].runs = 1 /\ ~heap[1].cancelled
  /\ heap[1].pc = "dead"
  /\ heap[3].name = "a_chain_0" /\ heap[3].trigger_count = 1
  /\ heap[4].name = "a_chain_1" /\ heap[4].trigger_count = MaxRepeats
  /\ heap[4].pc = "dead"

C17_LongBreakEveryK ==
  \A t \in Ids :
    LET e == heap[t]
        k == Get(e.config, "cycles_until_long_break", 4)
        n == (e.trigger_count + 1) \div 2
    IN  /\ e.exists /\ e.timer_type = "pomodoro" /\ k >= 1
        /\ e.pc = "sleep"
        => /\ e.period_left < e.duration
           /\ e.trigger_count % 2 = 0 =>
                e.duration = Get(e.config, "work_duration", 1500)
           /\ e.trigger_count % 2 = 1 /\ n > 0 /\ n % k = 0 =>
                e.duration = Get(e.config, "long_break_duration", 900)
           /\ e.trigger_count % 2 = 1 /\ n % k # 0 =>
                e.duration = Get(e.config, "break_duration", 300)

C17_Witness ==
  /\ heap[1].timer_type = "pomodoro"
  /\ Get(heap[1].config, "cycles_until_long_break", 4) = 2
  /\ heap[1].trigger_count = 3
  /\ heap[1].pc = "sleep"
  /\ heap[1].duration = Get(heap[1].config, "long_break_duration", 900)
  /\ heap[1].duration # Get(heap[1].config, "break_duration", 300)

\* C18 as stated: in every reachable state of a work-cycle engine the phase
\* flag is work iff trigger_count is even, and the cycle counter is
\* ceil(trigger_count / 2).
C18_PhaseFollowsCountAlways ==
  \A t \in Ids :
    LET e == heap[t]
    IN  e.exists /\ e.timer_type = "pomodoro" =>
          /\ e.is_work_period <=> e.trigger_count % 2 = 0
          /\ e.current_cycle = (e.trigger_count + 1) \div 2

\* C18: a work-cycle engine triggers at the end of a phase and flips the
\* phase when the trigger's actions are done; the cycle counter grows by
\* one with the flip that ends a work phase and never otherwise. Outside a
\* trigger the phase flag is work iff trigger_count is even and the cycle
\* counter is ceil(trigger_count / 2); inside a trigger (count incremented,
\* actions running) flag and counter are still those of the ending phase.
C18_PhaseFollowsCount ==
  [][\A t \in Ids :
       LET e == heap[t]
           f == heap'[t]
       IN  e.exists /\ e.timer_type = "pomodoro" =>
             /\ e.pc \notin {"exec", "cmd"} =>
                  /\ e.is_work_period <=> e.trigger_count % 2 = 0
                  /\ e.current_cycle = (e.trigger_count + 1) \div 2
             /\ e.pc \in {"exec", "cmd"} =>
                  /\ e.is_work_period <=> e.trigger_count % 2 = 1
                  /\ e.current_cycle = e.trigger_count \div 2
             /\ f.trigger_count # e.trigger_count =>
                  /\ f.trigger_count = e.trigger_count + 1
                  /\ e.period_left = 0 /\ f.pc = "exec"
             /\ f.is_work_period # e.is_work_period =>
                  e.pc = "exec" /\ f.pc # "exec"
             /\ f.current_cycle # e.current_cycle =>
                  /\ f.current_cycle = e.current_cycle + 1
                  /\ e.is_work_period /\ ~f.is_work_period]_vars

C18_Witness ==
  /\ heap[1].timer_type = "pomodoro"
  /\ heap[1].runs = 2
  /\ heap[1].pc = "sleep"
  /\ heap[1].trigger_count = 3
  /\ ~heap[1].is_work_period
  /\ heap[1].current_cycle = 2

\* C19: a stopwatch engine never triggers: in every step of every sequence
\* of starts, ticks and stops its trigger_count is 0, last_triggered is
\* empty, none of its actions has been executed and its worker is not in
\* _trigger; and its worker ends only with the cancellation signal set, so
\* a started stopwatch whose signal is clear has a live worker.
C19_StopwatchNeverTriggers ==
  [][\A t \in Ids :
       LET e == heap[t]
           f == heap'[t]
       IN  e.exists /\ e.timer_type = "stopwatch" =>
             /\ e.trigger_count = 0 /\ f.trigger_count = 0
             /\ f.last_triggered = NoTime
             /\ f.run_triggers = 0 /\ f.executed = 0 /\ f.done = <<>>
             /\ f.pc \notin {"exec", "cmd"}
             /\ is_alive(e) /\ ~is_alive(f) => e.stop_event
             /\ e.runs >= 1 /\ ~e.stop_event => is_alive(e)]_vars

C19_Witness ==
  /\ heap[1].timer_type = "stopwatch"
  /\ Len(heap[1].actions) > 0
  /\ heap[1].runs = 2
  /\ heap[1].age = MaxElapsed /\ heap[1].elapsed_time = MaxElapsed
  /\ is_alive(heap[1]) /\ ~heap[1].stop_event
  /\ heap[1].trigger_count = 0

\* the step from e to f is a poll of the conditional run loop: the worker
\* has started or its wait has timed out, the signal is clear, and the
\* worker moves on
Polls(e, f) ==
  /\ e.pc = "run" \/ (e.pc = "wait" /\ e.left = 0)
  /\ ~e.stop_event
  /\ f.pc # e.pc \/ f.left # e.left

\* C20: a conditional engine triggers exactly once at every poll whose
\* expression is true, also at consecutive polls, and at no other step; at
\* a poll whose expression is false or raises it does not trigger and
\* waits check_interval again, so with an expression that always raises it
\* never triggers while its worker stays alive until it is cancelled; a
\* wait that the cancellation signal ends is followed by the exit, without
\* a trigger.
C20_ConditionalTriggersPerTruePoll ==
  [][\A t \in Ids :
       LET e == heap[t]
           f == heap'[t]
           script == Get(e.config, "condition_script", "")
           waits == /\ f.pc = "wait"
                    /\ f.left = Get(e.config, "check_interval",
                                    DefaultCheckInterval)
                    /\ f.trigger_count = e.trigger_count
           triggers == /\ f.pc = "exec"
                       /\ f.trigger_count = e.trigger_count + 1
                       /\ f.run_triggers = e.run_triggers + 1
       IN  e.exists /\ e.timer_type = "conditional" =>
             /\ Polls(e, f) =>
                  /\ triggers \/ waits
                  /\ \A v \in {"True", "False", "2", "error"} :
                       (\A now \in Nows : eval(script, now) = v) =>
                         IF v \in {"True", "2"} THEN triggers ELSE waits
             /\ f.trigger_count # e.trigger_count => Polls(e, f) /\ triggers
             /\ e.pc = "wait" /\ e.stop_event /\ f.pc # e.pc =>
                  f.pc = "dead" /\ f.trigger_count = e.trigger_count
             /\ script = "1/0" =>
                  /\ f.trigger_count = 0 /\ f.executed = 0
                  /\ f.pc \notin {"exec", "cmd"}
                  /\ e.runs >= 1 /\ ~e.stop_event => is_alive(e)
                  /\ is_alive(e) /\ ~is_alive(f) => e.stop_event]_vars

C20_Witness ==
  /\ heap[1].timer_type = "conditional"
  /\ Get(heap[1].config, "condition_script", "") = "True"
  /\ heap[1].runs = 1 /\ ~heap[1].cancelled
  /\ heap[1].run_triggers = 3
  /\ heap[1].trigger_age = 2 * Get(heap[1].config, "check_interval", 0)
  /\ heap[1].pc = "wait"

\* C21: a conditional engine whose expression raises or evaluates to a
\* value that is not a boolean never triggers.
C21_NonBooleanIsFalse ==
  \A t \in Ids :
    LET e == heap[t]
        script == Get(e.config, "condition_script", "")
    IN  /\ e.exists /\ e.timer_type = "conditional"
        /\ \A now \in Nows : eval(script, now) \notin {"True", "False"}
        => e.trigger_count = 0

\* the marks of scheduled engine e whose second has passed on a weekday
\* and date that e allows, by the clock of its worker
PassedMarks(e) ==
  LET marks == Get(e.config, "schedule_times", <<>>)
  IN  {j \in 1..Len(marks) :
         /\ marks[j] < e.age
         /\ \E a \in 0..MaxElapsed :
              /\ Clock([e EXCEPT !.age = a]).time = marks[j]
              /\ Clock([e EXCEPT !.age = a]).weekday
                   \in Get(e.config, "days_of_week", 0..6)}

\* C22: a running scheduled engine triggers only at a second that is one
\* of its marks on an allowed weekday, and loses none: once such a second
\* has passed, the engine has triggered for it.
C22_ScheduledLosesNoEvent ==
  \A t \in Ids :
    LET e == heap[t]
        marks == Get(e.config, "schedule_times", <<>>)
    IN  /\ e.exists /\ e.timer_type = "scheduled"
        /\ e.runs = 1 /\ ~e.stop_event
        => /\ e.run_triggers >= 1 =>
                \E j \in 1..Len(marks) : marks[j] = e.trigger_age
           /\ e.run_triggers >= Cardinality({marks[i] : i \in PassedMarks(e)})

\* C23: a scheduled engine never triggers twice within one second of the
\* wall clock: a trigger of a run that has triggered before comes at a
\* later second than the trigger before it.
C23_OneTriggerPerSecond ==
  [][\A t \in Ids :
       LET e == heap[t]
           f == heap'[t]
       IN  /\ e.exists /\ e.timer_type = "scheduled"
           /\ e.run_triggers >= 1
           /\ f.run_triggers = e.run_triggers + 1
           => e.trigger_age < Clock(e).time]_vars

\* mode, config and action sequence of engine e are those of engine d
SameEngine(e, d) ==
  /\ e.exists /\ d.exists
  /\ e.timer_type = d.timer_type
  /\ e.config = d.config
  /\ e.actions = d.actions

\* C24: loading the document that save_to_file wrote for a registry into
\* an empty registry yields the names of the saved registry, each mapped
\* to an engine of the same mode, config and action sequence.
C24_SaveLoadRoundTrip ==
  [][/\ file.saved # <<>>
     /\ \A n \in Names : ~registered(timers, n)
     /\ LoadFile
     => \A n \in Names :
          /\ registered(timers', n) <=> registered(file.saved[1], n)
          /\ registered(timers', n) =>
               SameEngine(heap'[timers'[n]], heap[file.saved[1][n]])]_vars

\* the entries of document doc that load_from_file reaches: those before
\* the first entry with an unknown tag, in the order of Entries
RECURSIVE Reached(_, _)
Reached(doc, ns) ==
  IF ns = <<>> THEN {}
  ELSE IF ns[1] \notin DOMAIN doc THEN Reached(doc, Tail(ns))
  ELSE IF doc[ns[1]].type \notin TimerType
          \/ \E i \in 1..Len(doc[ns[1]].actions) :
               doc[ns[1]].actions[i] \notin ActionType
    THEN {}
  ELSE {ns[1]} \cup Reached(doc, Tail(ns))

\* C25: load_from_file registers no partially constructed engine: the name
\* of an entry with an unknown mode tag or an unknown action tag is not
\* added, every engine the load adds has the mode, the config and the whole
\* action list of its entry, what was registered before stays as it was,
\* and the call returns to its caller.
C25_LoadRegistersWholeEngines ==
  [][LoadFile /\ file.exists /\ file.json =>
       /\ result' = Returns("load_from_file", NoTimer, TRUE)
       /\ caller' = Idle
       /\ \A n \in Names :
            /\ registered(timers, n) => timers'[n] = timers[n]
            /\ ~registered(timers, n) /\ registered(timers', n) =>
                 /\ n \in Reached(file.data, Entries)
                 /\ heap'[timers'[n]].exists /\ ~heap[timers'[n]].exists
                 /\ heap'[timers'[n]].name = n
                 /\ heap'[timers'[n]].timer_type = file.data[n].type
                 /\ heap'[timers'[n]].config = file.data[n].config
                 /\ heap'[timers'[n]].actions = file.data[n].actions
                 /\ heap'[timers'[n]].timer_type \in TimerType
                 /\ \A i \in 1..Len(heap'[timers'[n]].actions) :
                      heap'[timers'[n]].actions[i] \in ActionType
            /\ n \in Reached(file.data, Entries) => registered(timers', n)
       /\ \A t \in Ids : heap[t].exists => heap'[t] = heap[t]]_vars

C25_Witness ==
  /\ result.op = "load_from_file"
  /\ file.json /\ DOMAIN file.data = {"a", "b"}
  /\ file.data["b"].actions = <<"popup", "fax">>
  /\ registered(timers, "a") /\ ~registered(timers, "b")
  /\ heap[timers["a"]].actions = <<"command", "popup">>
  /\ calls # <<>>

\* the config is in the range of the mode: a duration of at least 0, an
\* interval and a check interval above 0, a cycle threshold of at least 1,
\* chain sub-specifications with a known mode tag
ValidConfig(ty, cfg) ==
  /\ ty = "countdown" => Get(cfg, "duration", 0) >= 0
  /\ ty = "interval" => Get(cfg, "interval", DefaultInterval) > 0
  /\ ty = "conditional" =>
       Get(cfg, "check_interval", DefaultCheckInterval) > 0
  /\ ty = "pomodoro" => Get(cfg, "cycles_until_long_break", 4) >= 1
  /\ ty = "chain" =>
       \A i \in 1..Len(Get(cfg, "chain_configs", <<>>)) :
         Get(cfg, "chain_configs", <<>>)[i].type \in TimerType

\* C26: construction fails for a config that is invalid for the mode, so
\* no engine with an invalid config exists, is registered or has been
\* started.
C26_InvalidConfigRejected ==
  \A t \in Ids :
    heap[t].exists => ValidConfig(heap[t].timer_type, heap[t].config)

\* the run loop of engine e raises when it gets to the choice of a break
\* duration (threshold 0) or to a sub-specification without a known mode
Raising(e) ==
  \/ e.timer_type = "pomodoro"
       /\ Get(e.config, "cycles_until_long_break", 4) = 0
  \/ e.timer_type = "chain"
       /\ ~ValidConfig(e.timer_type, e.config)

\* C27: an error raised inside a run loop is contained. The step in which
\* the worker of such an engine ends without the signal set changes
\* nothing but that engine: the registry, every other engine, the caller
\* and what the caller was returned stay as they were; the worker does not
\* go on past the error; and a start_timer of the engine after it returns
\* true and launches a new worker.
C27_RunErrorContained ==
  [][\A t \in TopIds :
       LET e == heap[t]
           f == heap'[t]
       IN  e.exists /\ Raising(e) =>
             /\ is_alive(e) /\ ~is_alive(f) /\ ~e.stop_event =>
                  /\ f = exit_thread(e)
                       \/ f = exit_thread([e EXCEPT
                                             !.current_cycle = @ + 1,
                                             !.is_work_period = FALSE])
                       \/ f = exit_thread([e EXCEPT !.current_chain_index = 1])
                  /\ timers' = timers /\ caller' = caller
                  /\ result' = result /\ calls' = calls
                  /\ \A u \in Ids \ {t} : heap'[u] = heap[u]
             /\ e.timer_type = "pomodoro" /\ ~e.is_work_period =>
                  e.pc \in {"none", "dead", "run"}
             /\ e.timer_type = "chain" =>
                  \A c \in ChildIds : heap[c].name # ChainName(e.name, 1)
             /\ /\ StartTimer(e.name)
                /\ registered(timers, e.name) /\ timers[e.name] = t
                /\ ~is_alive(e)
                => /\ result' = Returns("start_timer", t, TRUE)
                   /\ f.pc = "run" /\ ~f.stop_event
                   /\ f.trigger_count = e.trigger_count]_vars

C27_Witness ==
  /\ heap[1].timer_type = "pomodoro"
  /\ Get(heap[1].config, "cycles_until_long_break", 4) = 0
  /\ heap[1].runs = 2
  /\ heap[1].pc = "dead" /\ ~heap[1].stop_event
  /\ heap[1].trigger_count = 1
  /\ heap[2].exists /\ timers["b"] = 2
  /\ result = Returns("start_timer", 1, TRUE)

C29_AtMostOneWorker == \A t \in Ids : live_workers(heap[t]) <= 1

\* the sub-timers chain t has constructed
Owned(t) ==
  UNION {SubTimers(t, i) :
           i \in 0..(Len(Get(heap[t].config, "chain_configs", <<>>)) - 1)}

\* a worker that stays alive for the rest of this second at least
asleep(e) == is_alive(e) /\ e.pc \in {"sleep", "wait"} /\ e.left > 0

\* C30: a chain has at most one live sub-timer worker, and while the
\* chain's worker is not alive no sub-timer worker of the chain is alive,
\* across stop and restart and with sub-timers of every mode (a worker
\* that exits within the second is not counted as alive)
C30_SubTimersWithinChain ==
  \A t \in TopIds :
    heap[t].exists /\ heap[t].timer_type = "chain" =>
      /\ Cardinality({c \in Owned(t) : asleep(heap[c])}) <= 1
      /\ ~is_alive(heap[t]) => \A c \in Owned(t) : ~asleep(heap[c])

\* C31: no entry of the registry is a chain's sub-timer; a step of a
\* chain's worker or of a sub-timer (construction, run, end) leaves the
\* registry as it is and calls no subscriber; and the set of registered
\* names changes only in add_timer, remove_timer and load_from_file
C31_SubTimersOutsideRegistry ==
  [][/\ \A n \in RegNames(timers') :
          timers'[n] \in TopIds /\ heap'[timers'[n]].name = n
     /\ \A c \in ChildIds :
          heap'[c] # heap[c] => timers' = timers /\ calls' = calls
     /\ \A t \in TopIds :
          /\ heap[t].timer_type = "chain" /\ is_alive(heap[t])
          /\ heap'[t].pc # heap[t].pc
          => timers' = timers /\ calls' = calls
     /\ RegNames(timers') # RegNames(timers) =>
          result'.op \in {"add_timer", "remove_timer", "load_from_file"}]_vars

C31_Witness ==
  /\ RegNames(timers) = {"a", "b"}
  /\ timers["a"] = 1
  /\ heap[1].pc = "nap" /\ heap[1].current_chain_index = 1
  /\ is_alive(heap[heap[1].chain_timer])
  /\ heap[heap[1].chain_timer].name = "a_chain_1"
  /\ \E c \in ChildIds : heap[c].name = "a_chain_0" /\ heap[c].pc = "dead"
  /\ calls = <<>>

\* C32: a step of a start or stop call on one name leaves the engine of
\* every other name (worker, signal, runtime state, trigger count), the
\* registry and the other caller's call as they are, and the call has the
\* effect and the return value of start() or stop() run on its engine
\* alone, whatever the other caller does in between
C32_DistinctNamesIndependent ==
  [][\A c \in Callers, t \in TopIds :
       /\ \/ StartTest(c, t)
          \/ starting[c] = t /\ StartLaunch(c)
          \/ StopSet(c, t)
          \/ joining[c] = t /\ JoinDone(c)
          => /\ \A u \in Ids \ {t} : heap'[u] = heap[u]
             /\ timers' = timers
             /\ \A d \in Callers \ {c} :
                  starting'[d] = starting[d] /\ joining'[d] = joining[d]
       /\ StartTest(c, t) =>
            /\ heap' = heap
            /\ starting'[c] = NoTimer =>
                 result' = Returns("start", t, FALSE) /\ ~start(heap[t]).ret
       /\ starting[c] = t /\ StartLaunch(c) =>
            /\ start(heap[t]).ret
            /\ heap'[t] = start(heap[t]).self
            /\ result' = Returns("start", t, TRUE)
       /\ StopSet(c, t) => heap'[t] = stop_set(heap[t])
       /\ joining[c] = t /\ JoinDone(c) =>
            heap' = heap /\ result' = Returns("stop", t, TRUE)]_vars

C32_Witness ==
  /\ joining[2] = 2 /\ is_alive(heap[2]) /\ heap[2].stop_event
  /\ heap[1].runs = 2 /\ heap[1].pc = "run" /\ ~heap[1].stop_event
  /\ result = Returns("start", 1, TRUE)
  /\ timers["a"] = 1 /\ timers["b"] = 2

\* C33: a chain engine never triggers: in every run, cancelled or not, and
\* after a restart its trigger_count is 0, its last_triggered is empty and
\* none of its own actions has been executed
C33_ChainNeverTriggers ==
  \A t \in Ids :
    LET e == heap[t]
    IN  e.exists /\ e.timer_type = "chain" =>
          /\ e.trigger_count = 0
          /\ e.last_triggered = NoTime
          /\ e.run_triggers = 0
          /\ e.executed = 0 /\ e.done = <<>>
          /\ e.pc \notin {"exec", "cmd"}

C33_Witness ==
  /\ heap[1].timer_type = "chain" /\ heap[1].actions # <<>>
  /\ heap[1].runs = 2 /\ heap[1].pc = "dead" /\ ~heap[1].cancelled
  /\ heap[1].current_chain_index = 1
  /\ \E c \in ChildIds : heap[c].name = "a_chain_1" /\ heap[c].trigger_count = 1
  /\ heap[1].trigger_count = 0

\* C34: a sub-timer constructed from a sub-specification that lists actions
\* has those actions attached in their order, and has executed all of them
\* once its trigger is over
C34_SubTimersCarryActions ==
  \A t \in TopIds, c \in ChildIds :
    LET listed == Get(heap[c].config, "actions", <<>>)
    IN  /\ heap[t].exists /\ heap[t].timer_type = "chain"
        /\ c \in Owned(t)
        => /\ heap[c].actions = listed
           /\ heap[c].pc = "dead" /\ heap[c].trigger_count > 0 =>
                heap[c].done = listed

\* the entries of a document whose mode tag and action tags are known
WellFormed(doc) ==
  {n \in DOMAIN doc :
     /\ doc[n].type \in TimerType
     /\ \A i \in 1..Len(doc[n].actions) : doc[n].actions[i] \in ActionType}

\* C35: a load registers every well-formed entry of its document, whether
\* a malformed entry comes before it or after it
C35_MalformedEntryFailsAlone ==
  [][LoadFile /\ file.exists /\ file.json =>
       \A n \in WellFormed(file.data) : registered(timers', n)]_vars

\* C36: when stop_all returns, every registered engine has its cancellation
\* signal set, with or without a worker and also when a join before it ran
\* into its timeout; no step of stop_all changes the registry or calls a
\* subscriber; start-all leaves every engine that has a live worker as it is
\* and launches a worker for each registered engine that has none, counts
\* those, and changes neither the registry nor calls a subscriber
C36_AllBestEffort ==
  [][/\ StopAll \/ StopAllNext =>
          /\ timers' = timers /\ calls' = <<>>
          /\ \A t \in Registered(timers) :
               /\ heap[t].stop_event => heap'[t].stop_event
               /\ heap'[t].pc = heap[t].pc
               /\ heap'[t].trigger_count = heap[t].trigger_count
          /\ \A t \in Ids \ Registered(timers) : heap'[t] = heap[t]
          /\ caller'.op = "idle" =>
               /\ result' = Returns("stop_all", NoTimer, TRUE)
               /\ \A t \in Registered(timers) : heap'[t].stop_event
     /\ StartAll =>
          /\ timers' = timers /\ calls' = <<>> /\ caller' = caller
          /\ \A t \in Registered(timers) :
               /\ is_alive(heap[t]) => heap'[t] = heap[t]
               /\ ~is_alive(heap[t]) =>
                    /\ heap'[t].pc = "run" /\ ~heap'[t].stop_event
                    /\ heap'[t].runs = heap[t].runs + 1
                    /\ heap'[t].trigger_count = heap[t].trigger_count
          /\ \A t \in Ids \ Registered(timers) : heap'[t] = heap[t]
          /\ result'.op = "start_all"
          /\ result'.count = Cardinality({t \in Registered(timers) :
                                            ~is_alive(heap[t])})]_vars

C36_Witness ==
  /\ result = Returns("stop_all", NoTimer, TRUE)
  /\ caller.op = "idle"
  /\ heap[1].pc = "cmd" /\ heap[1].stop_event
  /\ heap[2].pc = "none" /\ heap[2].stop_event
  /\ RegNames(timers) = {"a", "b"}

\* C37: between a pause() and the resume() that follows it a running
\* engine does not trigger, and its countdown, its interval wait and the
\* time of its work-cycle phase do not advance
C37_PauseHoldsEngine ==
  [][\A t \in Ids :
       LET e == heap[t]  f == heap'[t]
       IN  e.exists /\ is_alive(e) /\ e.paused /\ f.paused =>
             /\ f.trigger_count = e.trigger_count
             /\ f.remaining_time = e.remaining_time
             /\ e.pc = "wait" => f.pc = "wait" /\ f.left = e.left
             /\ f.current_cycle = e.current_cycle
             /\ f.is_work_period = e.is_work_period]_vars

\* C38: in every run of a countdown engine, the first one and the ones
\* after a natural end or a cancellation, the trigger comes when the
\* configured duration has passed since the start() of that run, not before
C38_EveryStartCountsDown ==
  \A t \in Ids :
    LET e == heap[t]
    IN  e.exists /\ e.timer_type = "countdown" /\ e.run_triggers > 0 =>
          e.trigger_age >= Duration(e)

\* C39: a worker that is in its tick, interval wait or poll wait when
\* stop() sets its signal ends the run without a trigger: it does not
\* trigger when it comes out of a wait during which the signal has been set
\* for a second or more
C39_CancelledWaitEndsRun ==
  [][\A t \in Ids :
       LET e == heap[t]  f == heap'[t]
       IN  /\ e.exists /\ e.stop_event /\ e.cancelled
           /\ e.pc \in {"sleep", "wait", "nap"}
           /\ e.late >= 1
           => /\ f.trigger_count = e.trigger_count
              /\ f.pc \notin {"exec", "cmd"}]_vars

\* C40: for a countdown engine of duration D >= 0, remaining_time stays
\* within 0..D; a step changes it only by taking one off, and that step is
\* the return of the worker's one-second sleep; and the step in which the
\* engine triggers ends with remaining_time 0 (the step in which a chain
\* puts a new sub-timer in the place of an ended one is not a step of that
\* engine)
C40_RemainingTimeCountsDown ==
  [][\A t \in Ids :
       LET e == heap[t]  f == heap'[t]
           constructed == /\ t \in ChildIds /\ ~is_alive(e)
                          /\ f.pc = "run" /\ f.runs = 1
       IN  e.exists /\ f.exists /\ e.timer_type = "countdown"
           /\ Duration(e) >= 0 /\ ~constructed =>
             /\ e.remaining_time \in 0..Duration(e)
             /\ f.remaining_time \in 0..Duration(e)
             /\ f.remaining_time # e.remaining_time =>
                  /\ f.remaining_time = e.remaining_time - 1
                  /\ e.pc = "sleep" /\ e.left = 0
                  /\ caller' = caller /\ result' = result /\ timers' = timers
             /\ e.pc = "sleep" /\ f.pc # "sleep" =>
                  f.remaining_time = e.remaining_time - 1
             /\ f.trigger_count # e.trigger_count => f.remaining_time = 0]_vars

C40_Witness ==
  /\ heap[1].timer_type = "countdown" /\ Duration(heap[1]) = MaxDuration
  /\ heap[1].runs = 2 /\ heap[1].pc = "exec"
  /\ heap[1].remaining_time = 0
  /\ heap[1].trigger_count = 1
  /\ heap[1].trigger_age = 1

====
